---- MODULE Spec2Model ----
(***************************************************************************)
(* Model of the history store, baseline validator, baseline cleanup and    *)
(* the up / baseline / status commands of app-migrations.                  *)
(*                                                                         *)
(* Text is modelled character by character: a string is a sequence of      *)
(* one-character strings.  Three kinds of word are kept atomic because the *)
(* code never looks inside them and they hold no whitespace: RFC3339       *)
(* timestamps, the "baseline:" marker of the log and the "version:",       *)
(* "created:", "summary:" keys of the legacy baseline file.                *)
(***************************************************************************)
EXTENDS Integers, Sequences, FiniteSets, TLC

\* ------------------------------------------------------------------ bounds
MaxClock == 6       \* timestamps handed out by Utc::now() are 1..MaxClock
MaxBaselines == 2   \* baseline records one behaviour may append
MaxAvail == 2       \* length of the available list drawn for a pure call
MaxApplied == 2     \* length of the applied list drawn for a pure call
MaxLogLines == 2    \* lines of the log a directory is found with
MaxRecords == 3     \* records of a log made of well-formed records only

\* ------------------------------------------------------------- characters
SP == " "
NL == "\n"
Whitespace == {SP, NL}

\* byte value of the characters that occur in versions and ids
Code == ("-" :> 45) @@ ("." :> 46) @@ ("0" :> 48) @@ ("1" :> 49) @@ ("2" :> 50)
        @@ ("9" :> 57) @@ ("a" :> 97) @@ ("b" :> 98) @@ ("c" :> 99)
        @@ ("s" :> 115) @@ ("x" :> 120) @@ ("y" :> 121) @@ (" " :> 32)

Min(a, b) == IF a <= b THEN a ELSE b

\* Rust's `a < b` on str: byte-wise lexicographic, a proper prefix is smaller
StrLt(a, b) ==
    \E i \in 1..(Min(Len(a), Len(b)) + 1) :
        /\ \A j \in 1..(i - 1) : a[j] = b[j]
        /\ \/ i = Len(a) + 1 /\ i <= Len(b)
           \/ i <= Len(a) /\ i <= Len(b) /\ Code[a[i]] < Code[b[i]]

StrLe(a, b) == a = b \/ StrLt(a, b)

\* a plausible slip: compare versions as numbers (shorter is smaller)
version_lte_numeric(v1, v2) ==
    \/ Len(v1) < Len(v2)
    \/ Len(v1) = Len(v2) /\ StrLe(v1, v2)

version_lte(v1, v2) == StrLe(v1, v2)

\* ----------------------------------------------------------- str helpers
RECURSIVE FindFrom(_, _, _)
FindFrom(s, c, i) ==
    IF i > Len(s) THEN 0 ELSE IF s[i] = c THEN i ELSE FindFrom(s, c, i + 1)

\* str::find: index of the first c in s, 0 when there is none
IndexOf(s, c) == FindFrom(s, c, 1)

Drop(s, n) == SubSeq(s, n + 1, Len(s))

\* str::lines(): split at "\n"; a final line without "\n" counts, and no
\* empty line is produced after a trailing "\n"
RECURSIVE Lines(_)
Lines(s) ==
    IF s = <<>> THEN <<>>
    ELSE LET i == IndexOf(s, NL)
         IN IF i = 0 THEN <<s>>
            ELSE <<SubSeq(s, 1, i - 1)>> \o Lines(Drop(s, i))

\* str::splitn(n, ' ')
RECURSIVE SplitN(_, _)
SplitN(s, n) ==
    LET i == IndexOf(s, SP)
    IN IF n <= 1 \/ i = 0 THEN <<s>>
       ELSE <<SubSeq(s, 1, i - 1)>> \o SplitN(Drop(s, i), n - 1)

RECURSIVE TrimStart(_)
TrimStart(s) ==
    IF s # <<>> /\ Head(s) \in Whitespace THEN TrimStart(Tail(s)) ELSE s

RECURSIVE TrimEnd(_)
TrimEnd(s) ==
    IF s # <<>> /\ s[Len(s)] \in Whitespace
    THEN TrimEnd(SubSeq(s, 1, Len(s) - 1)) ELSE s

Trim(s) == TrimEnd(TrimStart(s))

HasPrefix(s, p) == Len(s) >= Len(p) /\ SubSeq(s, 1, Len(p)) = p

\* str::replace('\n', " ")
ReplaceNL(s) == [i \in 1..Len(s) |-> IF s[i] = NL THEN SP ELSE s[i]]

\* [String]::join("\n")
RECURSIVE Join(_)
Join(ls) ==
    IF ls = <<>> THEN <<>>
    ELSE IF Len(ls) = 1 THEN ls[1]
    ELSE ls[1] \o <<NL>> \o Join(Tail(ls))

\* ------------------------------------------------------------- timestamps
\* An instant is a number.  Its RFC3339 text is one atomic word.  The same
\* instant has several texts; to_rfc3339 on a Utc value writes "+00:00".
TsUtc(n) == "T" \o ToString(n) \o "+00:00"
TsZulu(n) == "T" \o ToString(n) \o "Z"
BadTs == "not-a-time"

Instants == 0..MaxClock
TsTexts == {TsUtc(n) : n \in Instants} \cup {TsZulu(n) : n \in Instants}
TsValue == [t \in TsTexts |-> CHOOSE n \in Instants : t \in {TsUtc(n), TsZulu(n)}]

\* DateTime::parse_from_rfc3339(..).with_timezone(&Utc): None on error
parse_from_rfc3339(s) ==
    IF Len(s) = 1 /\ s[1] \in TsTexts THEN <<TsValue[s[1]]>> ELSE <<>>

to_rfc3339(n) == <<TsUtc(n)>>

\* ------------------------------------------------------------ option type
\* Option<T>: None is <<>>, Some(x) is <<x>>
None == <<>>
Some(x) == <<x>>

\* ------------------------------------------------------- history records
BaselineMark == "baseline:"
VersionKey == "version:"
CreatedKey == "created:"
SummaryKey == "summary:"

\* state.rs: struct HistoryState, Default
DefaultState == [applied |-> <<>>, baseline |-> None]

\* a mutant that forgets to flatten the summary
format_baseline_line_raw(b) ==
    <<BaselineMark, SP>> \o b.version \o <<SP>> \o to_rfc3339(b.created)
        \o (IF b.summary = None THEN <<>> ELSE <<SP>> \o b.summary[1])

\* a mutant that writes no summary at all
format_baseline_line_no_summary(b) ==
    <<BaselineMark, SP>> \o b.version \o <<SP>> \o to_rfc3339(b.created)

format_baseline_line(b) ==
    IF b.summary # None
    THEN <<BaselineMark, SP>> \o b.version \o <<SP>> \o to_rfc3339(b.created)
             \o <<SP>> \o ReplaceNL(b.summary[1])
    ELSE <<BaselineMark, SP>> \o b.version \o <<SP>> \o to_rfc3339(b.created)

\* One line of read_legacy_baseline's loop.  st is the tuple of the loop's
\* locals, with ok = FALSE once a timestamp failed to parse.
LegacyLine(st, line) ==
    LET closing == st.in_summary /\ ~HasPrefix(line, <<SP, SP>>)
                     /\ ~(line = <<>> \/ Head(line) = SP)
        st1 == IF closing
               THEN [st EXCEPT !.in_summary = FALSE,
                               !.summary = Some(TrimEnd(Join(st.summary_lines))),
                               !.summary_lines = <<>>]
               ELSE st
    IN IF st.in_summary /\ HasPrefix(line, <<SP, SP>>)
       THEN [st EXCEPT !.summary_lines = Append(@, Drop(line, 2))]
       ELSE IF st.in_summary /\ (line = <<>> \/ Head(line) = SP)
       THEN [st EXCEPT !.summary_lines =
                Append(@, IF line = <<>> THEN <<>> ELSE TrimStart(line))]
       ELSE IF HasPrefix(line, <<VersionKey>>)
       THEN [st1 EXCEPT !.version = Some(Trim(Drop(line, 1)))]
       ELSE IF HasPrefix(line, <<CreatedKey>>)
       THEN LET t == parse_from_rfc3339(Trim(Drop(line, 1)))
            IN IF t = None THEN [st1 EXCEPT !.ok = FALSE]
               ELSE [st1 EXCEPT !.created = t]
       ELSE IF HasPrefix(line, <<SummaryKey>>)
       THEN LET rest == Trim(Drop(line, 1))
            IN IF rest = <<"|">> THEN [st1 EXCEPT !.in_summary = TRUE]
               ELSE IF rest # <<>> THEN [st1 EXCEPT !.summary = Some(rest)]
               ELSE st1
       ELSE st1

RECURSIVE LegacyLoop(_, _)
LegacyLoop(st, lines) ==
    IF lines = <<>> \/ ~st.ok THEN st
    ELSE LegacyLoop(LegacyLine(st, Head(lines)), Tail(lines))

\* The end of read_legacy_baseline: an open summary block is closed, and a
\* baseline is returned only when both version and created were found.
\* st holds the loop's locals.
LegacyResult(st) ==
    IF ~st.ok THEN [ok |-> FALSE, baseline |-> None]
    ELSE IF st.version # None /\ st.created # None
    THEN [ok |-> TRUE,
          baseline |-> Some([version |-> st.version[1],
                             created |-> st.created[1],
                             summary |-> IF st.in_summary /\ st.summary_lines # <<>>
                                         THEN Some(TrimEnd(Join(st.summary_lines)))
                                         ELSE st.summary])]
    ELSE [ok |-> TRUE, baseline |-> None]

\* Result<Option<Baseline>>: [ok, baseline]
read_legacy_baseline(content) ==
    LegacyResult(LegacyLoop([ok |-> TRUE, version |-> None, created |-> None,
                             summary |-> None, in_summary |-> FALSE,
                             summary_lines |-> <<>>],
                            Lines(content)))

\* ---------------------------------------------------------- the directory
\* A file is [exists, content]; the directory holds the log and the two
\* legacy files.
Absent == [exists |-> FALSE, content |-> <<>>]
File(c) == [exists |-> TRUE, content |-> c]

\* a writer that opens the log for writing from its start
AppendLine_truncate(f, line) == File(line \o <<NL>>)

\* OpenOptions::create(true).append(true) followed by writeln!
AppendLine(f, line) == File(f.content \o line \o <<NL>>)

\* a writer that looks for a record of the id in the log and writes none
\* if it finds one
append_history_once(dir, id, applied_at) ==
    IF \E ls \in {Lines(dir.history.content)} :
       \E k \in 1..Len(ls) :
          Len(ls[k]) > Len(id) /\ SubSeq(ls[k], 1, Len(id) + 1) = id \o <<SP>>
    THEN dir
    ELSE [dir EXCEPT !.history = AppendLine(@, id \o <<SP>> \o to_rfc3339(applied_at))]

append_history(dir, id, applied_at) ==
    [dir EXCEPT !.history = AppendLine(@, id \o <<SP>> \o to_rfc3339(applied_at))]

\* a command that leaves the baseline record for after the cleanup
append_baseline_deferred(dir, b) == dir

append_baseline(dir, b) ==
    [dir EXCEPT !.history = AppendLine(@, format_baseline_line(b))]

\* The content migrate_legacy_files builds: the legacy entries, a newline
\* if they do not end with one, then the baseline line.
UpgradedContent(content0, baseline) ==
    IF baseline # None
    THEN (IF content0 # <<>> /\ content0[Len(content0)] # NL
          THEN content0 \o <<NL>> ELSE content0)
         \o format_baseline_line(baseline[1]) \o <<NL>>
    ELSE content0

\* The log is written only if there is content; both legacy files are removed.
WriteUpgraded(dir, content) ==
    [history |-> IF content # <<>> THEN File(content) ELSE dir.history,
     legacy_history |-> Absent,
     legacy_baseline |-> Absent]

\* migrate_legacy_files once the legacy files are read: content0 is the
\* legacy history, rb the result of read_legacy_baseline
MigrateWith(dir, content0, rb) ==
    IF ~rb.ok THEN [ok |-> FALSE, dir |-> dir]
    ELSE [ok |-> TRUE,
          dir |-> WriteUpgraded(dir, UpgradedContent(content0, rb.baseline))]

\* Result<()>: [ok, dir]
migrate_legacy_files(dir) ==
    MigrateWith(dir,
                IF dir.legacy_history.exists
                THEN dir.legacy_history.content ELSE <<>>,
                IF dir.legacy_baseline.exists
                THEN read_legacy_baseline(dir.legacy_baseline.content)
                ELSE [ok |-> TRUE, baseline |-> None])

\* a reader that rejects a line of a single token
HistoryLine_strict(st, raw) ==
    LET line == Trim(raw)
    IN IF line = <<>> THEN st
       ELSE IF HasPrefix(line, <<BaselineMark, SP>>)
       THEN LET parts == SplitN(Drop(line, 2), 3)
            IN IF Len(parts) >= 2
               THEN LET created == parse_from_rfc3339(parts[2])
                    IN IF created = None THEN [st EXCEPT !.ok = FALSE]
                       ELSE [st EXCEPT !.baseline =
                                Some([version |-> parts[1],
                                      created |-> created[1],
                                      summary |-> IF Len(parts) = 3
                                                  THEN Some(parts[3])
                                                  ELSE None])]
               ELSE st
       ELSE LET parts == SplitN(line, 2)
            IN IF Len(parts) # 2 THEN [st EXCEPT !.ok = FALSE]
               ELSE LET applied_at == parse_from_rfc3339(parts[2])
                    IN IF applied_at = None THEN [st EXCEPT !.ok = FALSE]
                       ELSE [st EXCEPT !.applied =
                                Append(@, [id |-> parts[1],
                                           applied_at |-> applied_at[1]])]

\* a reader that skips an applied record whose timestamp does not parse
HistoryLine_lenient(st, raw) ==
    LET line == Trim(raw)
    IN IF line = <<>> THEN st
       ELSE IF HasPrefix(line, <<BaselineMark, SP>>)
       THEN LET parts == SplitN(Drop(line, 2), 3)
            IN IF Len(parts) >= 2
               THEN LET created == parse_from_rfc3339(parts[2])
                    IN IF created = None THEN [st EXCEPT !.ok = FALSE]
                       ELSE [st EXCEPT !.baseline =
                                Some([version |-> parts[1],
                                      created |-> created[1],
                                      summary |-> IF Len(parts) = 3
                                                  THEN Some(parts[3])
                                                  ELSE None])]
               ELSE st
       ELSE LET parts == SplitN(line, 2)
            IN IF Len(parts) # 2 THEN st
               ELSE LET applied_at == parse_from_rfc3339(parts[2])
                    IN IF applied_at = None THEN st
                       ELSE [st EXCEPT !.applied =
                                Append(@, [id |-> parts[1],
                                           applied_at |-> applied_at[1]])]

\* a reader that keeps the first baseline record it meets
HistoryLine_first_baseline(st, raw) ==
    LET line == Trim(raw)
    IN IF line = <<>> THEN st
       ELSE IF HasPrefix(line, <<BaselineMark, SP>>)
       THEN LET parts == SplitN(Drop(line, 2), 3)
            IN IF Len(parts) >= 2
               THEN LET created == parse_from_rfc3339(parts[2])
                    IN IF created = None THEN [st EXCEPT !.ok = FALSE]
                       ELSE IF st.baseline # None THEN st
                       ELSE [st EXCEPT !.baseline =
                                Some([version |-> parts[1],
                                      created |-> created[1],
                                      summary |-> IF Len(parts) = 3
                                                  THEN Some(parts[3])
                                                  ELSE None])]
               ELSE st
       ELSE LET parts == SplitN(line, 2)
            IN IF Len(parts) # 2 THEN st
               ELSE LET applied_at == parse_from_rfc3339(parts[2])
                    IN IF applied_at = None THEN [st EXCEPT !.ok = FALSE]
                       ELSE [st EXCEPT !.applied =
                                Append(@, [id |-> parts[1],
                                           applied_at |-> applied_at[1]])]

\* One line of read_history's loop over the log; st = [ok, applied, baseline]
HistoryLine(st, raw) ==
    LET line == Trim(raw)
    IN IF line = <<>> THEN st
       ELSE IF HasPrefix(line, <<BaselineMark, SP>>)
       THEN LET parts == SplitN(Drop(line, 2), 3)
            IN IF Len(parts) >= 2
               THEN LET created == parse_from_rfc3339(parts[2])
                    IN IF created = None THEN [st EXCEPT !.ok = FALSE]
                       ELSE [st EXCEPT !.baseline =
                                Some([version |-> parts[1],
                                      created |-> created[1],
                                      summary |-> IF Len(parts) = 3
                                                  THEN Some(parts[3])
                                                  ELSE None])]
               ELSE st
       ELSE LET parts == SplitN(line, 2)
            IN IF Len(parts) # 2 THEN st
               ELSE LET applied_at == parse_from_rfc3339(parts[2])
                    IN IF applied_at = None THEN [st EXCEPT !.ok = FALSE]
                       ELSE [st EXCEPT !.applied =
                                Append(@, [id |-> parts[1],
                                           applied_at |-> applied_at[1]])]

RECURSIVE HistoryLoop(_, _)
HistoryLoop(st, lines) ==
    IF lines = <<>> \/ ~st.ok THEN st
    ELSE HistoryLoop(HistoryLine(st, Head(lines)), Tail(lines))

\* The end of read_history: a legacy baseline file left beside a log that
\* holds no baseline is appended to the log and removed.  rb is the result
\* of reading it.
ReadResidual(d1, st, rb) ==
    IF ~rb.ok THEN [ok |-> FALSE, state |-> DefaultState, dir |-> d1]
    ELSE IF rb.baseline # None
    THEN [ok |-> TRUE,
          state |-> [applied |-> st.applied, baseline |-> rb.baseline],
          dir |-> [append_baseline(d1, rb.baseline[1])
                      EXCEPT !.legacy_baseline = Absent]]
    ELSE [ok |-> TRUE,
          state |-> [applied |-> st.applied, baseline |-> st.baseline],
          dir |-> d1]

\* a reader that appends a legacy baseline file it finds even when the log
\* already holds a baseline record
ReadLog_always_residual(d1, st) ==
    IF ~st.ok THEN [ok |-> FALSE, state |-> DefaultState, dir |-> d1]
    ELSE ReadResidual(d1, st,
                      IF d1.legacy_baseline.exists
                      THEN read_legacy_baseline(d1.legacy_baseline.content)
                      ELSE [ok |-> TRUE, baseline |-> None])

\* read_history after its loop over the lines; st = [ok, applied, baseline]
ReadLog(d1, st) ==
    IF ~st.ok THEN [ok |-> FALSE, state |-> DefaultState, dir |-> d1]
    ELSE ReadResidual(d1, st,
                      IF st.baseline = None /\ d1.legacy_baseline.exists
                      THEN read_legacy_baseline(d1.legacy_baseline.content)
                      ELSE [ok |-> TRUE, baseline |-> None])

\* a reader that, right after an upgrade, hands back the baseline as the
\* legacy file spelled it instead of parsing the log it has just written
ReadUpgraded_legacy_state(dir, mig) ==
    IF ~mig.ok THEN [ok |-> FALSE, state |-> DefaultState, dir |-> dir]
    ELSE IF ~mig.dir.history.exists
    THEN [ok |-> TRUE, state |-> DefaultState, dir |-> mig.dir]
    ELSE IF ~dir.history.exists /\ dir.legacy_baseline.exists
    THEN [ok |-> TRUE,
          state |-> [applied |-> HistoryLoop([ok |-> TRUE, applied |-> <<>>,
                                               baseline |-> None],
                                              Lines(mig.dir.history.content)).applied,
                     baseline |-> read_legacy_baseline(
                                      dir.legacy_baseline.content).baseline],
          dir |-> mig.dir]
    ELSE ReadLog(mig.dir,
                 HistoryLoop([ok |-> TRUE, applied |-> <<>>, baseline |-> None],
                             Lines(mig.dir.history.content)))

\* read_history after the legacy upgrade; mig is the upgrade's result
ReadUpgraded(dir, mig) ==
    IF ~mig.ok THEN [ok |-> FALSE, state |-> DefaultState, dir |-> dir]
    ELSE IF ~mig.dir.history.exists
    THEN [ok |-> TRUE, state |-> DefaultState, dir |-> mig.dir]
    ELSE ReadLog(mig.dir,
                 HistoryLoop([ok |-> TRUE, applied |-> <<>>, baseline |-> None],
                             Lines(mig.dir.history.content)))

\* a reader that upgrades whenever it finds a legacy applied log, without
\* looking for the log of the current format
read_history_always_upgrade(dir) ==
    ReadUpgraded(dir,
                 IF dir.legacy_history.exists
                 THEN migrate_legacy_files(dir)
                 ELSE [ok |-> TRUE, dir |-> dir])

\* Result<HistoryState> and the directory it leaves: [ok, state, dir]
read_history(dir) ==
    ReadUpgraded(dir,
                 IF ~dir.history.exists /\ dir.legacy_history.exists
                 THEN migrate_legacy_files(dir)
                 ELSE [ok |-> TRUE, dir |-> dir])

\* ------------------------------------------------------------- discovery
\* loader.rs: extract_id, the file name without its extension
extract_id(filename) ==
    IF \E i \in 1..Len(filename) : filename[i] = "."
    THEN LET pos == CHOOSE i \in 1..Len(filename) :
                        filename[i] = "." /\ \A j \in (i + 1)..Len(filename) : filename[j] # "."
         IN SubSeq(filename, 1, pos - 1)
    ELSE filename

\* loader.rs: extract_prefix, the first three characters as a number
extract_prefix(filename) ==
    (Code[filename[1]] - 48) * 100 + (Code[filename[2]] - 48) * 10
        + (Code[filename[3]] - 48)

\* The version token of a migration is the text of its prefix.
ToMigration(filename) ==
    [id |-> extract_id(filename), version |-> SubSeq(filename, 1, 3),
     file_path |-> filename]

\* glob yields paths in alphabetical order; sort_by_key(prefix) is stable
DiscoverBefore(f, g) ==
    \/ extract_prefix(f) < extract_prefix(g)
    \/ extract_prefix(f) = extract_prefix(g) /\ StrLt(f, g)

RECURSIVE SortFiles(_)
SortFiles(fs) ==
    IF fs = {} THEN <<>>
    ELSE LET f == CHOOSE x \in fs : \A y \in fs \ {x} : DiscoverBefore(x, y)
         IN <<f>> \o SortFiles(fs \ {f})

discover_migrations(fs) ==
    LET names == SortFiles(fs)
    IN [i \in 1..Len(names) |-> ToMigration(names[i])]

\* -------------------------------------------------------- baseline cleanup
\* baseline.rs delete_baselined_migrations on a filesystem without I/O
\* errors.  fs = [files, dirs, deleted]: the script files and the asset
\* directories that exist, and the DeletedItems pushed so far.
FileItem(m) == [path |-> m.file_path, is_directory |-> FALSE]
DirItem(m) == [path |-> m.id, is_directory |-> TRUE]

\* a cleanup that also removes the migrations above the baseline version
DeleteOne_all(baseline_version, m, fs) ==
    [files |-> fs.files \ {m.file_path},
     dirs |-> fs.dirs \ {m.id},
     deleted |-> fs.deleted
                    \o (IF m.file_path \in fs.files THEN <<FileItem(m)>> ELSE <<>>)
                    \o (IF m.id \in fs.dirs THEN <<DirItem(m)>> ELSE <<>>)]

\* a cleanup that reports the script file of every covered migration,
\* whether it was there or not
DeleteOne_reports_missing(baseline_version, m, fs) ==
    IF ~version_lte(m.version, baseline_version) THEN fs
    ELSE [files |-> fs.files \ {m.file_path},
          dirs |-> fs.dirs \ {m.id},
          deleted |-> fs.deleted
                         \o <<FileItem(m)>>
                         \o (IF m.id \in fs.dirs THEN <<DirItem(m)>> ELSE <<>>)]

\* one turn of the loop, lines 29-61
DeleteOne(baseline_version, m, fs) ==
    IF ~version_lte(m.version, baseline_version) THEN fs
    ELSE [files |-> fs.files \ {m.file_path},
          dirs |-> fs.dirs \ {m.id},
          deleted |-> fs.deleted
                         \o (IF m.file_path \in fs.files THEN <<FileItem(m)>> ELSE <<>>)
                         \o (IF m.id \in fs.dirs THEN <<DirItem(m)>> ELSE <<>>)]

RECURSIVE DeleteLoop(_, _, _)
DeleteLoop(baseline_version, available, fs) ==
    IF available = <<>> THEN fs
    ELSE DeleteLoop(baseline_version, Tail(available),
                    DeleteOne(baseline_version, Head(available), fs))

\* Result<Vec<DeletedItem>> and the filesystem it leaves: [files, dirs, deleted]
delete_baselined_migrations(baseline_version, available, fs) ==
    DeleteLoop(baseline_version, available,
               [files |-> fs.files, dirs |-> fs.dirs, deleted |-> <<>>])

\* ------------------------------------------------------ baseline validator
AppliedIds(applied) == {applied[i].id : i \in 1..Len(applied)}

OkResult == [err |-> "ok", id |-> <<>>]

\* a validator that forgets the completeness loop
validate_baseline_no_completeness(version, available, applied, existing_baseline) ==
    IF ~\E i \in 1..Len(available) : available[i].version = version
    THEN [err |-> "no_match", id |-> <<>>]
    ELSE IF existing_baseline # None /\ StrLt(version, existing_baseline[1].version)
    THEN [err |-> "backward", id |-> <<>>]
    ELSE OkResult

\* a validator that forgets the backward check
validate_baseline_no_backward(version, available, applied, existing_baseline) ==
    LET gaps == {i \in 1..Len(available) :
                    /\ version_lte(available[i].version, version)
                    /\ available[i].id \notin AppliedIds(applied)}
    IN IF ~\E i \in 1..Len(available) : available[i].version = version
       THEN [err |-> "no_match", id |-> <<>>]
       ELSE IF gaps # {}
       THEN [err |-> "unapplied",
             id |-> available[CHOOSE i \in gaps : \A j \in gaps : i <= j].id]
       ELSE OkResult

\* a validator that refuses to repeat the existing baseline version
validate_baseline_strict(version, available, applied, existing_baseline) ==
    LET gaps == {i \in 1..Len(available) :
                    /\ version_lte(available[i].version, version)
                    /\ available[i].id \notin AppliedIds(applied)}
    IN IF ~\E i \in 1..Len(available) : available[i].version = version
       THEN [err |-> "no_match", id |-> <<>>]
       ELSE IF existing_baseline # None /\ StrLe(version, existing_baseline[1].version)
       THEN [err |-> "backward", id |-> <<>>]
       ELSE IF gaps # {}
       THEN [err |-> "unapplied",
             id |-> available[CHOOSE i \in gaps : \A j \in gaps : i <= j].id]
       ELSE OkResult

\* a validator that runs the completeness loop before the backward check
validate_baseline_reordered(version, available, applied, existing_baseline) ==
    LET gaps == {i \in 1..Len(available) :
                    /\ version_lte(available[i].version, version)
                    /\ available[i].id \notin AppliedIds(applied)}
    IN IF ~\E i \in 1..Len(available) : available[i].version = version
       THEN [err |-> "no_match", id |-> <<>>]
       ELSE IF gaps # {}
       THEN [err |-> "unapplied",
             id |-> available[CHOOSE i \in gaps : \A j \in gaps : i <= j].id]
       ELSE IF existing_baseline # None /\ StrLt(version, existing_baseline[1].version)
       THEN [err |-> "backward", id |-> <<>>]
       ELSE OkResult

\* a validator that accepts any version lying below some available migration
validate_baseline_loose_match(version, available, applied, existing_baseline) ==
    LET gaps == {i \in 1..Len(available) :
                    /\ version_lte(available[i].version, version)
                    /\ available[i].id \notin AppliedIds(applied)}
    IN IF ~\E i \in 1..Len(available) : StrLe(version, available[i].version)
       THEN [err |-> "no_match", id |-> <<>>]
       ELSE IF existing_baseline # None /\ StrLt(version, existing_baseline[1].version)
       THEN [err |-> "backward", id |-> <<>>]
       ELSE IF gaps # {}
       THEN [err |-> "unapplied",
             id |-> available[CHOOSE i \in gaps : \A j \in gaps : i <= j].id]
       ELSE OkResult

\* Result<()>: err is "ok", "no_match", "backward" or "unapplied"; id is the
\* migration the "has not been applied" message names
\* a validator that accepts every request
validate_baseline_accept_all(version, available, applied, existing_baseline) ==
    OkResult

\* a validator that asks for applied records only strictly below the version
validate_baseline_checks_below(version, available, applied, existing_baseline) ==
    LET gaps == {i \in 1..Len(available) :
                    /\ StrLt(available[i].version, version)
                    /\ available[i].id \notin AppliedIds(applied)}
    IN IF ~\E i \in 1..Len(available) : available[i].version = version
       THEN [err |-> "no_match", id |-> <<>>]
       ELSE IF existing_baseline # None /\ StrLt(version, existing_baseline[1].version)
       THEN [err |-> "backward", id |-> <<>>]
       ELSE IF gaps # {}
       THEN [err |-> "unapplied",
             id |-> available[CHOOSE i \in gaps : \A j \in gaps : i <= j].id]
       ELSE OkResult

validate_baseline(version, available, applied, existing_baseline) ==
    LET gaps == {i \in 1..Len(available) :
                    /\ version_lte(available[i].version, version)
                    /\ available[i].id \notin AppliedIds(applied)}
    IN IF ~\E i \in 1..Len(available) : available[i].version = version
       THEN [err |-> "no_match", id |-> <<>>]
       ELSE IF existing_baseline # None /\ StrLt(version, existing_baseline[1].version)
       THEN [err |-> "backward", id |-> <<>>]
       ELSE IF gaps # {}
       THEN [err |-> "unapplied",
             id |-> available[CHOOSE i \in gaps : \A j \in gaps : i <= j].id]
       ELSE OkResult

\* ------------------------------------------------------------ the queries
\* a get_pending that forgets the baseline
get_pending_no_baseline(available, state) ==
    LET keep(m) == m.id \notin AppliedIds(state.applied)
    IN SelectSeq(available, keep)

\* a get_pending that forgets the applied records
get_pending_no_applied(available, state) ==
    LET keep(m) == \/ state.baseline = None
                   \/ ~StrLe(m.version, state.baseline[1].version)
    IN SelectSeq(available, keep)

\* a get_pending that looks only at the baseline once there is one
get_pending_baseline_only(available, state) ==
    LET keep(m) == IF state.baseline = None
                   THEN m.id \notin AppliedIds(state.applied)
                   ELSE ~StrLe(m.version, state.baseline[1].version)
    IN SelectSeq(available, keep)

\* a query whose baseline covers only the versions strictly below it
get_pending_below_baseline(available, state) ==
    LET keep(m) == /\ m.id \notin AppliedIds(state.applied)
                   /\ \/ state.baseline = None
                      \/ ~StrLt(m.version, state.baseline[1].version)
    IN SelectSeq(available, keep)

get_pending(available, state) ==
    LET keep(m) == /\ m.id \notin AppliedIds(state.applied)
                   /\ \/ state.baseline = None
                      \/ ~StrLe(m.version, state.baseline[1].version)
    IN SelectSeq(available, keep)

\* a query that takes the first applied entry of available, not the last
get_current_version_first(available, applied) ==
    LET hits == {i \in 1..Len(available) : available[i].id \in AppliedIds(applied)}
    IN IF hits = {} THEN None
       ELSE Some(available[CHOOSE i \in hits : \A j \in hits : i <= j].version)

get_current_version(available, applied) ==
    LET hits == {i \in 1..Len(available) : available[i].id \in AppliedIds(applied)}
    IN IF hits = {} THEN None
       ELSE Some(available[CHOOSE i \in hits : \A j \in hits : j <= i].version)

get_target_version(available) ==
    IF available = <<>> THEN None ELSE Some(available[Len(available)].version)

\* ------------------------------------------------------------------ state
\* what the user may put into the migrations directory
FileNames == { <<"0","0","1","-","a",".","s">>,
               <<"0","0","2","-","b",".","s">>,
               <<"0","0","2","-","c",".","s">> }
DirNames == { <<"0","0","2","-","b">> }
\* what the user may pass to `baseline`
CmdVersions == { <<"0","0","1">>, <<"0","0","2">>, <<"0","0","9">> }
Summaries == { Some(<<"x", NL, "y">>) }
Procs == {1, 2}

VARIABLES
    dir,        \* history, legacy_history, legacy_baseline of the directory
    files,      \* migration script files present in the directory
    dirs,       \* asset directories present in the directory
    now,        \* the last instant Utc::now() returned
    run,        \* per invocation: where it stands in up's or cleanup's loop
    out,        \* what the last finished command returned
    serial,     \* TRUE when the operator runs one invocation at a time
    executed,   \* ids of the migrations whose execution succeeded, in order
    creations,  \* per baseline the command appended: its line and the ids
                \* of the available migrations at or below its version
    call        \* a direct call of a pure function: its inputs and result

vars == <<dir, files, dirs, now, run, out, serial, executed, creations, call>>

EmptyDir == [history |-> Absent, legacy_history |-> Absent,
             legacy_baseline |-> Absent]

Idle == [pc |-> "idle", pending |-> <<>>, i |-> 0, log0 |-> <<>>,
         version |-> <<>>, todo |-> <<>>, deleted |-> <<>>]

NoOut == [cmd |-> "none", err |-> "ok", state |-> DefaultState,
          pending |-> <<>>, deleted |-> <<>>]

NoCall == [op |-> "idle", version |-> <<>>, available |-> <<>>,
           applied |-> <<>>, existing |-> None, result |-> <<>>]

Init ==
    /\ dir = EmptyDir
    /\ files = {}
    /\ dirs = {}
    /\ now = 0
    /\ run = [p \in Procs |-> Idle]
    /\ out = NoOut
    /\ serial = TRUE
    /\ executed = <<>>
    /\ creations = <<>>
    /\ call = NoCall

AllIdle == \A p \in Procs : run[p].pc = "idle"
\* one invocation at a time: the single invocation is slot 1
Solo(p) == serial => (p = 1 /\ \A q \in Procs \ {p} : run[q].pc = "idle")

Finished(cmd, err, state, pending, deleted) ==
    [cmd |-> cmd, err |-> err, state |-> state, pending |-> pending,
     deleted |-> deleted]

\* ------------------------------------------------------------ environment
\* the user writes a new migration script
AddMigration(f) ==
    /\ AllIdle
    /\ f \notin files
    /\ files' = files \cup {f}
    /\ UNCHANGED <<dir, dirs, now, run, out, serial, executed, creations, call>>

\* the user creates the asset directory of a script
AddAssetDir(d) ==
    /\ AllIdle
    /\ d \notin dirs
    /\ \E f \in files : extract_id(f) = d
    /\ dirs' = dirs \cup {d}
    /\ UNCHANGED <<dir, files, now, run, out, serial, executed, creations, call>>

\* ------------------------------------------------------------ commands/up
\* an up whose dry run writes the applied record of the first pending
\* migration
UpRun_dry_records(p, dry_run) ==
    /\ run[p].pc = "idle"
    /\ Solo(p)
    /\ \E available \in {discover_migrations(files)}, r \in {read_history(dir)} :
       \E pending \in {get_pending(available, r.state)} :
          IF ~r.ok
          THEN /\ dir' = r.dir
               /\ out' = Finished("up", "read_error", DefaultState, <<>>, <<>>)
               /\ run' = run
          ELSE IF pending = <<>>
          THEN /\ dir' = r.dir
               /\ out' = Finished("up", "ok", DefaultState, <<>>, <<>>)
               /\ run' = run
          ELSE IF dry_run
          THEN /\ dir' = append_history(r.dir, pending[1].id, now)
               /\ out' = Finished("up", "ok", DefaultState, <<>>, <<>>)
               /\ run' = run
          ELSE /\ dir' = r.dir
               /\ out' = out
               /\ run' = [run EXCEPT ![p] =
                     [Idle EXCEPT !.pc = "up", !.pending = pending, !.i = 1,
                                  !.log0 = r.dir.history.content]]
    /\ UNCHANGED <<files, dirs, now, serial, executed, creations, call>>

\* up.rs run, lines 32-47: discovery, read, pending, the early returns
UpRun(p, dry_run) ==
    /\ run[p].pc = "idle"
    /\ Solo(p)
    /\ \E available \in {discover_migrations(files)}, r \in {read_history(dir)} :
       \E pending \in {get_pending(available, r.state)} :
          /\ dir' = r.dir
          /\ IF ~r.ok
             THEN /\ out' = Finished("up", "read_error", DefaultState, <<>>, <<>>)
                  /\ run' = run
             ELSE IF pending = <<>> \/ dry_run
             THEN /\ out' = Finished("up", "ok", DefaultState, <<>>, <<>>)
                  /\ run' = run
             ELSE /\ out' = out
                  /\ run' = [run EXCEPT ![p] =
                        [Idle EXCEPT !.pc = "up", !.pending = pending, !.i = 1,
                                     !.log0 = r.dir.history.content]]
    /\ UNCHANGED <<files, dirs, now, serial, executed, creations, call>>

\* a loop that records the migration before looking at the exit status
record_applied_always(success) == TRUE

\* up.rs run, line 65: the applied record is written only on success
record_applied(success) == success

\* up.rs run, lines 48-80: one turn of the loop; success is the exit status
\* of the script
UpExecute(p, success) ==
    /\ run[p].pc = "up"
    /\ Solo(p)
    /\ now < MaxClock
    /\ LET m == run[p].pending[run[p].i]
           last == run[p].i = Len(run[p].pending)
       IN IF m.file_path \notin files
          THEN \* Command::status fails to spawn: execute returns Err
               /\ success
               /\ out' = Finished("up", "exec_error", DefaultState, <<>>, <<>>)
               /\ run' = [run EXCEPT ![p] = Idle]
               /\ UNCHANGED <<dir, now, executed>>
          ELSE IF success
          THEN /\ now' = now + 1
               /\ dir' = IF record_applied(success)
                         THEN append_history(dir, m.id, now') ELSE dir
               /\ executed' = Append(executed, m.id)
               /\ IF last
                  THEN /\ out' = Finished("up", "ok", DefaultState, <<>>, <<>>)
                       /\ run' = [run EXCEPT ![p] = Idle]
                  ELSE /\ out' = out
                       /\ run' = [run EXCEPT ![p].i = @ + 1]
          ELSE /\ out' = Finished("up", "migration_failed", DefaultState,
                                  run[p].pending, <<>>)
               /\ run' = [run EXCEPT ![p] = Idle]
               /\ IF record_applied(success)
                  THEN /\ now' = now + 1
                       /\ dir' = append_history(dir, m.id, now')
                  ELSE UNCHANGED <<dir, now>>
               /\ UNCHANGED executed
    /\ UNCHANGED <<files, dirs, serial, creations, call>>

\* ------------------------------------------------------ commands/baseline
\* baseline.rs run, lines 32-111 up to the call of delete_baselined_migrations
\* The arguments of the command are drawn where the code first looks at
\* them: version for the validation, the others once validation passed.
BaselineRun(p) ==
    /\ run[p].pc = "idle"
    /\ Solo(p)
    /\ now < MaxClock
    /\ Len(creations) < MaxBaselines
    /\ \E available \in {discover_migrations(files)}, r \in {read_history(dir)} :
          IF ~r.ok
          THEN /\ dir' = r.dir
               /\ out' = Finished("baseline", "read_error", DefaultState, <<>>, <<>>)
               /\ UNCHANGED <<now, run, creations>>
          ELSE \E version \in CmdVersions :
               LET keepm(m) == StrLe(m.version, version)
               IN
               \E v \in {validate_baseline(version, available, r.state.applied,
                                            r.state.baseline)},
                  to_delete \in {SelectSeq(available, keepm)} :
                  IF v.err # "ok"
                  THEN /\ dir' = r.dir
                       /\ out' = Finished("baseline", v.err, DefaultState, <<>>, <<>>)
                       /\ UNCHANGED <<now, run, creations>>
                  ELSE \E summary \in Summaries, dry_run \in BOOLEAN, keep \in BOOLEAN :
                       LET baseline == [version |-> version, created |-> now + 1,
                                        summary |-> summary]
                           d2 == append_baseline(r.dir, baseline)
                       IN IF dry_run
                          THEN /\ dir' = r.dir
                               /\ out' = Finished("baseline", "dry_run", DefaultState,
                                                  <<>>, <<>>)
                               /\ UNCHANGED <<now, run, creations>>
                          ELSE /\ dir' = d2
                               /\ now' = now + 1
                               /\ creations' = Append(creations,
                                      [line |-> Len(Lines(d2.history.content)),
                                       version |-> version,
                                       required |-> {to_delete[i].id :
                                                       i \in 1..Len(to_delete)}])
                               /\ IF ~keep /\ to_delete # <<>>
                                  THEN /\ out' = out
                                       /\ run' = [run EXCEPT ![p] =
                                              [Idle EXCEPT !.pc = "cleanup",
                                                           !.version = version,
                                                           !.todo = available]]
                                  ELSE /\ out' = Finished("baseline", "ok",
                                                          DefaultState, <<>>, <<>>)
                                       /\ run' = run
    /\ UNCHANGED <<files, dirs, serial, executed, call>>

\* baseline.rs delete_baselined_migrations, lines 28-62: one turn of the
\* loop.  fail names the removal that hits a filesystem error, if any.
BaselineCleanup(p, fail) ==
    /\ run[p].pc = "cleanup"
    /\ Solo(p)
    /\ LET m == Head(run[p].todo)
           covered == version_lte(m.version, run[p].version)
           hasFile == covered /\ m.file_path \in files
           hasDir == covered /\ m.id \in dirs
           item1 == IF hasFile
                    THEN <<[path |-> m.file_path, is_directory |-> FALSE]>>
                    ELSE <<>>
           item2 == IF hasDir
                    THEN <<[path |-> m.id, is_directory |-> TRUE]>>
                    ELSE <<>>
       IN \/ /\ fail = "file"
             /\ hasFile
             /\ out' = Finished("baseline", "io_error", DefaultState, <<>>,
                                run[p].deleted)
             /\ run' = [run EXCEPT ![p] = Idle]
             /\ UNCHANGED <<files, dirs>>
          \/ /\ fail = "dir"
             /\ hasDir
             /\ files' = files \ {m.file_path}
             /\ out' = Finished("baseline", "io_error", DefaultState, <<>>,
                                run[p].deleted \o item1)
             /\ run' = [run EXCEPT ![p] = Idle]
             /\ UNCHANGED dirs
          \/ /\ fail = "none"
             /\ files' = IF hasFile THEN files \ {m.file_path} ELSE files
             /\ dirs' = IF hasDir THEN dirs \ {m.id} ELSE dirs
             /\ IF Len(run[p].todo) = 1
                THEN /\ out' = Finished("baseline", "ok", DefaultState, <<>>,
                                        run[p].deleted \o item1 \o item2)
                     /\ run' = [run EXCEPT ![p] = Idle]
                ELSE /\ out' = out
                     /\ run' = [run EXCEPT ![p].todo = Tail(@),
                                           ![p].deleted = @ \o item1 \o item2]
    /\ UNCHANGED <<dir, now, serial, executed, creations, call>>

\* ---------------------------------------------------------- commands/status
\* status.rs run: discovery, read, pending
StatusRun(p) ==
    /\ run[p].pc = "idle"
    /\ Solo(p)
    /\ \E available \in {discover_migrations(files)}, r \in {read_history(dir)} :
          /\ dir' = r.dir
          /\ out' = IF r.ok
                    THEN Finished("status", "ok", r.state,
                                  get_pending(available, r.state), <<>>)
                    ELSE Finished("status", "read_error", DefaultState, <<>>, <<>>)
    /\ UNCHANGED <<files, dirs, now, run, serial, executed, creations, call>>

Next ==
    \/ \E f \in FileNames : AddMigration(f)
    \/ \E d \in DirNames : AddAssetDir(d)
    \/ \E p \in Procs, dry_run \in BOOLEAN : UpRun(p, dry_run)
    \/ \E p \in Procs, success \in BOOLEAN : UpExecute(p, success)
    \/ \E p \in Procs : BaselineRun(p)
    \/ \E p \in Procs, fail \in {"none", "file", "dir"} : BaselineCleanup(p, fail)
    \/ \E p \in Procs : StatusRun(p)

Spec == Init /\ [][Next]_vars

\* --------------------------------------------- two invocations of up
\* two invocations of up at once on a directory with scripts and no log;
\* each runs the steps of up.rs in order, interleaved with the other's
InitConcurrent ==
    /\ dir = EmptyDir
    /\ files = FileNames
    /\ dirs = {}
    /\ now = 0
    /\ run = [p \in Procs |-> Idle]
    /\ out = NoOut
    /\ serial = FALSE
    /\ executed = <<>>
    /\ creations = <<>>
    /\ call = NoCall

NextConcurrent ==
    \/ \E p \in Procs, dry_run \in BOOLEAN : UpRun(p, dry_run)
    \/ \E p \in Procs, success \in BOOLEAN : UpExecute(p, success)

SpecConcurrent == InitConcurrent /\ [][NextConcurrent]_vars

\* ------------------------------------------- direct calls of the queries
\* inputs for a direct call: versions of different lengths, migrations that
\* share ids or versions, lists in any order
PureVersions == { <<"1">>, <<"1","0">>, <<"9">> }
PureIds == { <<"a">>, <<"b">> }
PureMigrations ==
    {[id |-> i, version |-> v, file_path |-> i \o <<".", "s">>] :
        i \in PureIds, v \in PureVersions}
PureApplied == {[id |-> i, applied_at |-> 0] : i \in PureIds}
PureBaselines ==
    {None} \cup {Some([version |-> v, created |-> 0, summary |-> None]) :
                    v \in PureVersions}

SeqsUpTo(S, n) == UNION {[1..k -> S] : k \in 0..n}

InitPure ==
    /\ dir = EmptyDir
    /\ files = {}
    /\ dirs = {}
    /\ now = 0
    /\ run = [p \in Procs |-> Idle]
    /\ out = NoOut
    /\ serial = TRUE
    /\ executed = <<>>
    /\ creations = <<>>
    /\ call \in [op : {"ready"}, version : PureVersions,
                 available : SeqsUpTo(PureMigrations, MaxAvail),
                 applied : SeqsUpTo(PureApplied, MaxApplied),
                 existing : PureBaselines, result : {<<>>}]

Unchanged == UNCHANGED <<dir, files, dirs, now, run, out, serial, executed, creations>>

CallValidateBaseline ==
    /\ call.op = "ready"
    /\ call' = [call EXCEPT !.op = "validate_baseline",
                            !.result = validate_baseline(call.version, call.available,
                                                         call.applied, call.existing)]
    /\ Unchanged

CallGetPending ==
    /\ call.op = "ready"
    /\ call' = [call EXCEPT !.op = "get_pending",
                            !.result = get_pending(call.available,
                                           [applied |-> call.applied,
                                            baseline |-> call.existing])]
    /\ Unchanged

CallGetCurrentVersion ==
    /\ call.op = "ready"
    /\ call' = [call EXCEPT !.op = "get_current_version",
                            !.result = get_current_version(call.available, call.applied)]
    /\ Unchanged

NextPure == CallValidateBaseline \/ CallGetPending \/ CallGetCurrentVersion

SpecPure == InitPure /\ [][NextPure]_vars

\* ------------------------------------------- direct calls of the cleanup
\* The list handed to the cleanup holds the migrations of some script files
\* in any order; of those files any may since have gone, and any migration
\* may or may not have an asset directory.
AssetDirs == {extract_id(f) : f \in FileNames}
MigrationLists(fs) ==
    {ms \in [1..Cardinality(fs) -> {ToMigration(f) : f \in fs}] :
        \A i, j \in 1..Cardinality(fs) : ms[i] = ms[j] => i = j}

InitCleanup ==
    /\ dir = EmptyDir
    /\ \E listed \in SUBSET FileNames :
          /\ files \in SUBSET listed
          /\ \E available \in MigrationLists(listed), version \in CmdVersions :
                call = [op |-> "ready", version |-> version,
                        available |-> available,
                        before |-> <<>>, first |-> <<>>, result |-> <<>>]
    /\ dirs \in SUBSET AssetDirs
    /\ now = 0
    /\ run = [p \in Procs |-> Idle]
    /\ out = NoOut
    /\ serial = TRUE
    /\ executed = <<>>
    /\ creations = <<>>

CallDelete ==
    /\ call.op = "ready"
    /\ \E r \in {delete_baselined_migrations(call.version, call.available,
                                              [files |-> files, dirs |-> dirs])} :
          /\ files' = r.files
          /\ dirs' = r.dirs
          /\ call' = [call EXCEPT !.op = "delete_baselined_migrations",
                                  !.before = [files |-> files, dirs |-> dirs],
                                  !.first = r.deleted,
                                  !.result = r.deleted]
    /\ UNCHANGED <<dir, now, run, out, serial, executed, creations>>

CallDeleteAgain ==
    /\ call.op = "delete_baselined_migrations"
    /\ \E r \in {delete_baselined_migrations(call.version, call.available,
                                              [files |-> files, dirs |-> dirs])} :
          /\ files' = r.files
          /\ dirs' = r.dirs
          /\ call' = [call EXCEPT !.op = "delete_baselined_migrations_again",
                                  !.result = r.deleted]
    /\ UNCHANGED <<dir, now, run, out, serial, executed, creations>>

NextCleanup == CallDelete \/ CallDeleteAgain

SpecCleanup == InitCleanup /\ [][NextCleanup]_vars

\* --------------------------------------- reading a directory as found
\* lines a log may hold: well-formed records, records with a broken
\* timestamp, a baseline marker with too few fields, a foreign word, two
\* foreign words, a blank
IdA == <<"0","0","1","-","a">>
IdB == <<"0","0","2","-","b">>
LogLines ==
    { IdA \o <<SP, TsUtc(1)>>,
      IdB \o <<SP, TsZulu(2)>>,
      IdA \o <<SP, BadTs>>,
      <<BaselineMark, SP, "0","0","1", SP, TsUtc(3)>>,
      <<BaselineMark, SP, "0","0","2", SP, TsUtc(4), SP, "x", SP, "y">>,
      <<BaselineMark, SP, "0","0","1", SP, BadTs>>,
      <<BaselineMark, SP, "0","0","1">>,
      <<"x">>,
      <<"x", SP, "y">>,
      <<>> }

RECURSIVE Unlines(_)
Unlines(ls) == IF ls = <<>> THEN <<>> ELSE Head(ls) \o <<NL>> \o Unlines(Tail(ls))

LogContents == {Unlines(ls) : ls \in SeqsUpTo(LogLines, MaxLogLines)}

\* legacy applied logs: none, one or two entries, the last line with or
\* without its newline
LegacyHistories ==
    { <<>>,
      IdA \o <<SP, TsUtc(1), NL>>,
      IdA \o <<SP, TsUtc(1), NL>> \o IdB \o <<SP, TsZulu(2), NL>>,
      IdA \o <<SP, TsUtc(1), NL>> \o IdB \o <<SP, TsZulu(2)>> }

\* legacy baseline files: a literal block summary, no summary, an inline
\* summary, an empty block, a file without `created`, a broken timestamp
LegacyBaselines ==
    { <<VersionKey, SP, "0","0","2", NL, CreatedKey, SP, TsZulu(0), NL,
        SummaryKey, SP, "|", NL, SP, SP, "x", NL, SP, SP, "y", NL, NL>>,
      <<VersionKey, SP, "0","0","1", NL, CreatedKey, SP, TsUtc(0), NL>>,
      <<VersionKey, SP, "0","0","1", NL, SummaryKey, SP, "x", SP, "y", NL,
        CreatedKey, SP, TsUtc(0), NL>>,
      <<VersionKey, SP, "0","0","2", NL, CreatedKey, SP, TsZulu(0), NL,
        SummaryKey, SP, "|", NL, NL>>,
      <<VersionKey, SP, "0","0","1", NL>>,
      <<VersionKey, SP, "0","0","1", NL, CreatedKey, SP, BadTs, NL>> }

FilesOf(S) == {Absent} \cup {File(c) : c \in S}

InitRead ==
    /\ dir \in [history : FilesOf(LogContents),
                legacy_history : FilesOf(LegacyHistories),
                legacy_baseline : FilesOf(LegacyBaselines)]
    /\ files = FileNames
    /\ dirs = {}
    /\ now = 0
    /\ run = [p \in Procs |-> Idle]
    /\ out = NoOut
    /\ serial = TRUE
    /\ executed = <<>>
    /\ creations = <<>>
    /\ call = NoCall

NextRead == \E p \in Procs : StatusRun(p)

SpecRead == InitRead /\ [][NextRead]_vars

\* ------------------------------------------ an upgrade that is cut short
\* migrate_legacy_files stopped after fs::write: at "written" before the
\* first remove_file, at "history_removed" between the two
InterruptedUpgrade(d, content, point) ==
    [history |-> File(content),
     legacy_history |-> IF point = "written" THEN d.legacy_history ELSE Absent,
     legacy_baseline |-> d.legacy_baseline]

InitInterrupted ==
    /\ dir \in [history : {Absent},
                legacy_history : FilesOf(LegacyHistories),
                legacy_baseline : FilesOf(LegacyBaselines)]
    /\ call = [op |-> "found", before |-> dir, point |-> "none"]
    /\ files = FileNames
    /\ dirs = {}
    /\ now = 0
    /\ run = [p \in Procs |-> Idle]
    /\ out = NoOut
    /\ serial = TRUE
    /\ executed = <<>>
    /\ creations = <<>>

\* a read starts the upgrade (state.rs:39) and the process dies in
\* migrate_legacy_files once the log is on disk
UpgradeInterrupted(point) ==
    /\ call.op = "found"
    /\ out.cmd = "none"
    /\ ~dir.history.exists /\ dir.legacy_history.exists
    /\ \E rb \in {IF dir.legacy_baseline.exists
                   THEN read_legacy_baseline(dir.legacy_baseline.content)
                   ELSE [ok |-> TRUE, baseline |-> None]} :
          /\ rb.ok
          /\ \E content \in {UpgradedContent(dir.legacy_history.content,
                                              rb.baseline)} :
                /\ content # <<>>
                /\ dir' = InterruptedUpgrade(dir, content, point)
    /\ call' = [op |-> "interrupted", before |-> dir, point |-> point]
    /\ UNCHANGED <<files, dirs, now, run, out, serial, executed, creations>>

NextInterrupted ==
    \/ \E point \in {"written", "history_removed"} : UpgradeInterrupted(point)
    \/ \E p \in Procs : StatusRun(p)

SpecInterrupted == InitInterrupted /\ [][NextInterrupted]_vars

\* ------------------------------------------------------- runs of up alone
\* up on a directory with any of the scripts and a log that is absent, or
\* holds an applied record, or a baseline record
UpLogs ==
    { Absent,
      File(IdA \o <<SP, TsUtc(0), NL>>),
      File(IdB \o <<SP, TsUtc(0), NL>>),
      File(<<BaselineMark, SP, "0","0","1", SP, TsUtc(0), NL>>) }

InitUp ==
    /\ \E log \in UpLogs :
          dir = [history |-> log, legacy_history |-> Absent,
                 legacy_baseline |-> Absent]
    /\ files \in SUBSET FileNames
    /\ dirs = {}
    /\ now = 0
    /\ run = [p \in Procs |-> Idle]
    /\ out = NoOut
    /\ serial = TRUE
    /\ executed = <<>>
    /\ creations = <<>>
    /\ call = NoCall

NextUp ==
    \/ \E p \in Procs, dry_run \in BOOLEAN : UpRun(p, dry_run)
    \/ \E p \in Procs, success \in BOOLEAN : UpExecute(p, success)

\* the process of an invocation keeps running and every script it starts
\* returns an exit status: the loop of up.rs takes its next turn
SpecUp ==
    /\ InitUp /\ [][NextUp]_vars
    /\ WF_vars(\E p \in Procs, success \in BOOLEAN : UpExecute(p, success))

\* ------------------------------------ reading a log of well-formed records
\* applied records of two migrations and baseline records at two versions,
\* in any order
RecordLines ==
    { IdA \o <<SP, TsUtc(1)>>,
      IdB \o <<SP, TsZulu(2)>>,
      <<BaselineMark, SP, "0","0","1", SP, TsUtc(3)>>,
      <<BaselineMark, SP, "0","0","2", SP, TsUtc(4), SP, "x", SP, "y">> }

InitLog ==
    /\ \E ls \in SeqsUpTo(RecordLines, MaxRecords) :
          dir = [history |-> File(Unlines(ls)), legacy_history |-> Absent,
                 legacy_baseline |-> Absent]
    /\ files = FileNames
    /\ dirs = {}
    /\ now = 0
    /\ run = [p \in Procs |-> Idle]
    /\ out = NoOut
    /\ serial = TRUE
    /\ executed = <<>>
    /\ creations = <<>>
    /\ call = NoCall

NextLog == \E p \in Procs : StatusRun(p)

SpecLog == InitLog /\ [][NextLog]_vars

\* ------------------------------- the baseline command on a found directory
\* directories the command may be pointed at: a log of applied records with
\* or without a baseline, and legacy files of an earlier version of the tool
FoundLogs ==
    { IdA \o <<SP, TsUtc(1), NL>>,
      IdA \o <<SP, TsUtc(1), NL>> \o IdB \o <<SP, TsZulu(2), NL>>,
      IdA \o <<SP, TsUtc(1), NL>>
          \o <<BaselineMark, SP, "0","0","1", SP, TsUtc(3), NL>> }
FoundLegacyHistories == { IdA \o <<SP, TsUtc(1), NL>> }
FoundLegacyBaselines ==
    { <<VersionKey, SP, "0","0","1", NL, CreatedKey, SP, TsUtc(0), NL>>,
      <<VersionKey, SP, "0","0","2", NL, CreatedKey, SP, TsZulu(0), NL,
        SummaryKey, SP, "|", NL, SP, SP, "x", NL, SP, SP, "y", NL, NL>> }
FoundFiles ==
    { { <<"0","0","1","-","a",".","s">> },
      { <<"0","0","1","-","a",".","s">>, <<"0","0","2","-","b",".","s">> } }

InitFound ==
    /\ dir \in [history : FilesOf(FoundLogs),
                legacy_history : FilesOf(FoundLegacyHistories),
                legacy_baseline : FilesOf(FoundLegacyBaselines)]
    /\ files \in FoundFiles
    /\ dirs \in {{}, DirNames}
    /\ now = 0
    /\ run = [p \in Procs |-> Idle]
    /\ out = NoOut
    /\ serial = TRUE
    /\ executed = <<>>
    /\ creations = <<>>
    /\ call = NoCall

NextFound ==
    \/ \E p \in Procs : BaselineRun(p)
    \/ \E p \in Procs, fail \in {"none", "file", "dir"} : BaselineCleanup(p, fail)

SpecFound == InitFound /\ [][NextFound]_vars

\* --------------------------------------- both commands on what they find
\* up and baseline, with or without dry_run, on the directories of
\* InitFound
NextDry ==
    \/ \E p \in Procs, dry_run \in BOOLEAN : UpRun(p, dry_run)
    \/ \E p \in Procs, success \in BOOLEAN : UpExecute(p, success)
    \/ \E p \in Procs : BaselineRun(p)
    \/ \E p \in Procs, fail \in {"none", "file", "dir"} : BaselineCleanup(p, fail)

SpecDry == InitFound /\ [][NextDry]_vars

\* ----------------------------------- a baseline written and read back
\* baselines handed to append_baseline: with no summary, an empty one, one
\* word, two lines, blanks at either end or inside, a final newline
RoundTripSummaries ==
    { None, Some(<<>>), Some(<<"x">>), Some(<<"x", NL, "y">>),
      Some(<<"x", SP>>), Some(<<SP, "x">>), Some(<<"x", NL>>),
      Some(<<"x", SP, SP, "y">>) }
RoundTripBaselines ==
    [version : { <<"0","0","1">>, <<"9">> }, created : {0, MaxClock},
     summary : RoundTripSummaries]
RoundTripLogs ==
    { Absent,
      File(IdA \o <<SP, TsUtc(1), NL>>),
      File(<<BaselineMark, SP, "0","0","2", SP, TsUtc(3), SP, "z", NL>>) }

InitRoundTrip ==
    /\ \E log \in RoundTripLogs :
          dir = [history |-> log, legacy_history |-> Absent,
                 legacy_baseline |-> Absent]
    /\ \E b \in RoundTripBaselines :
          call = [op |-> "ready", baseline |-> b]
    /\ files = {}
    /\ dirs = {}
    /\ now = 0
    /\ run = [p \in Procs |-> Idle]
    /\ out = NoOut
    /\ serial = TRUE
    /\ executed = <<>>
    /\ creations = <<>>

CallAppendBaseline ==
    /\ call.op = "ready"
    /\ dir' = append_baseline(dir, call.baseline)
    /\ call' = [call EXCEPT !.op = "append_baseline"]
    /\ UNCHANGED <<files, dirs, now, run, out, serial, executed, creations>>

NextRoundTrip == CallAppendBaseline \/ \E p \in Procs : StatusRun(p)

SpecRoundTrip == InitRoundTrip /\ [][NextRoundTrip]_vars

\* ------------------------------------------------------- reading the log
\* what a read of the directory would return now
Live == read_history(dir).state

\* the record a single line of the log decodes to, alone
LineState(raw) == HistoryLine([ok |-> TRUE, applied |-> <<>>, baseline |-> None], raw)
IsAppliedLine(raw, id) ==
    \E st \in {LineState(raw)} :
        st.ok /\ st.applied # <<>> /\ st.applied[1].id = id
IsBaselineLine(raw, version) ==
    \E st \in {LineState(raw)} :
        st.ok /\ st.baseline # None /\ st.baseline[1].version = version

IdsOf(ms) == [i \in 1..Len(ms) |-> ms[i].id]
NoDuplicates(seq) == \A i, j \in 1..Len(seq) : seq[i] = seq[j] => i = j

\* ---------------------------------------------------------------- claims
\* C1: every baseline record the baseline command wrote at version V is
\* preceded in the log by an applied record for each migration that was
\* available with version <= V when the baseline was created.
C1_BaselineComplete ==
    \A ls \in {Lines(dir.history.content)} :
    \A c \in 1..Len(creations) :
        /\ creations[c].line <= Len(ls)
        /\ IsBaselineLine(ls[creations[c].line], creations[c].version)
        /\ \A id \in creations[c].required :
               \E j \in 1..(creations[c].line - 1) : IsAppliedLine(ls[j], id)

\* a baseline was created over at least two available migrations
C1_Witness ==
    \E c \in 1..Len(creations) : Cardinality(creations[c].required) >= 2

\* C6: from one read of the history to the next, the version of the live
\* baseline never decreases lexicographically (and a live baseline never
\* disappears).
C6_BaselineMonotonic ==
    [][dir' # dir =>
         \A d1 \in {dir}, d2 \in {dir'} :
         \A old \in {read_history(d1).state}, new \in {read_history(d2).state} :
            old.baseline # None =>
               /\ new.baseline # None
               /\ StrLe(old.baseline[1].version, new.baseline[1].version)]_vars

\* the log holds a baseline at 001 and a later live baseline at 002
C6_Witness ==
    \E live \in {Live}, ls \in {Lines(dir.history.content)} :
        /\ live.baseline # None
        /\ live.baseline[1].version = <<"0","0","2">>
        /\ \E j \in 1..Len(ls) : IsBaselineLine(ls[j], <<"0","0","1">>)

C8_StopOnFailure ==
    [][\A p \in Procs :
          (run[p].pc = "up" /\ run'[p].pc = "idle" /\ out'.err = "migration_failed")
          => \A k \in {run[p].i}, d2 \in {dir'} :
             \A new \in {read_history(d2).state},
                before \in {HistoryLoop([ok |-> TRUE, applied |-> <<>>,
                                         baseline |-> None],
                                        Lines(run[p].log0))} :
                /\ executed' = executed
                /\ IdsOf(new.applied) = IdsOf(before.applied)
                       \o [j \in 1..(k - 1) |-> run[p].pending[j].id]
                /\ new.baseline = before.baseline
                /\ Len(Lines(d2.history.content)) = Len(Lines(run[p].log0)) + k - 1
                /\ \A j \in 1..(Len(run[p].pending) - 1) :
                       StrLe(run[p].pending[j].version, run[p].pending[j + 1].version)]_vars

\* the third of three pending migrations failed
C8_Witness ==
    /\ out.cmd = "up" /\ out.err = "migration_failed"
    /\ Len(out.pending) = 3
    /\ Len(Live.applied) = 2

\* what the three rules of validate_baseline say about the inputs of a call,
\* written with the string order itself
Matched == \E i \in 1..Len(call.available) : call.available[i].version = call.version
Backward == call.existing # None /\ StrLt(call.version, call.existing[1].version)
Gaps == {i \in 1..Len(call.available) :
            /\ StrLe(call.available[i].version, call.version)
            /\ \A j \in 1..Len(call.applied) :
                   call.applied[j].id # call.available[i].id}
Validated == call.op = "validate_baseline"

\* C2 as stated: the "has not been applied" error is returned exactly when
\* some available migration at or below V has no applied record.
C2_Original == Validated => (call.result.err = "unapplied" <=> Gaps # {})

\* C2: the "has not been applied" error is returned exactly when V matches
\* an available migration, V is not below the existing baseline, and some
\* available migration at or below V has no applied record; with or
\* without an existing baseline.
C2_Completeness ==
    Validated => (call.result.err = "unapplied"
                     <=> (Matched /\ ~Backward /\ Gaps # {}))

\* the error is returned although a baseline exists
C2_Witness ==
    Validated /\ call.result.err = "unapplied" /\ call.existing # None

\* C3 as stated: with an existing baseline the "backward" error is returned
\* exactly when V is below its version, and validation succeeds when V
\* equals its version.
C3_Original ==
    (Validated /\ call.existing # None)
    => /\ call.result.err = "backward" <=> StrLt(call.version, call.existing[1].version)
       /\ call.version = call.existing[1].version => call.result.err = "ok"

\* C3: with an existing baseline and a V that matches an available
\* migration, the "backward" error is returned exactly when V is below the
\* baseline's version; when V equals it, validation succeeds provided every
\* available migration at or below V is applied.
C3_BackwardMove ==
    (Validated /\ call.existing # None /\ Matched)
    => /\ call.result.err = "backward" <=> StrLt(call.version, call.existing[1].version)
       /\ (call.version = call.existing[1].version /\ Gaps = {})
              => call.result.err = "ok"

\* validation at the version of the existing baseline succeeded
C3_Witness ==
    /\ Validated /\ call.existing # None
    /\ call.version = call.existing[1].version
    /\ call.result.err = "ok"

\* C4: the "No migration found" error is returned exactly when no available
\* migration has version V.
C4_NoMatch == Validated => (call.result.err = "no_match" <=> ~Matched)

\* the error is returned although an available migration lies above V
C4_Witness ==
    /\ Validated /\ call.result.err = "no_match"
    /\ \E i \in 1..Len(call.available) : StrLt(call.version, call.available[i].version)

\* C5: of the violated rules the first in the order no-match, backward,
\* completeness is reported, and the completeness error names the first
\* unapplied migration of the available list.
C5_Precedence ==
    Validated =>
       /\ ~Matched => call.result.err = "no_match"
       /\ (Matched /\ Backward) => call.result.err = "backward"
       /\ (Matched /\ ~Backward /\ Gaps # {}) =>
             /\ call.result.err = "unapplied"
             /\ \E i \in Gaps : /\ \A j \in Gaps : i <= j
                                /\ call.result.id = call.available[i].id
       /\ (Matched /\ ~Backward /\ Gaps = {}) => call.result.err = "ok"

\* backward and completeness are both violated, and two migrations with
\* different ids are unapplied
C5_Witness ==
    /\ Validated /\ Matched /\ Backward
    /\ Cardinality({call.available[i].id : i \in Gaps}) = 2

\* C9: get_pending returns the available migrations that are not applied
\* by id and, when there is a baseline, lie above its version, in the order
\* of the available list.
Kept == {i \in 1..Len(call.available) :
            /\ \A j \in 1..Len(call.applied) :
                   call.applied[j].id # call.available[i].id
            /\ \/ call.existing = None
               \/ StrLt(call.existing[1].version, call.available[i].version)}
C9_Pending ==
    call.op = "get_pending" =>
       /\ Len(call.result) = Cardinality(Kept)
       /\ \A k \in 1..Len(call.result) :
             \E i \in Kept : /\ Cardinality({j \in Kept : j < i}) = k - 1
                             /\ call.result[k] = call.available[i]

\* of two unapplied migrations the one above the baseline stays pending and
\* the one at or below it does not
C9_Witness ==
    /\ call.op = "get_pending" /\ call.existing # None
    /\ call.applied = <<>>
    /\ Len(call.available) = 2 /\ Len(call.result) = 1
    /\ StrLt(call.existing[1].version, call.result[1].version)

\* the applied entries a legacy applied log holds, when every line of it is
\* a well-formed applied record
LegacyEntries(content) ==
    HistoryLoop([ok |-> TRUE, applied |-> <<>>, baseline |-> None], Lines(content))
WellFormedApplied(content) ==
    \A i \in 1..Len(Lines(content)) :
        \E st \in {LineState(Lines(content)[i])} :
            st.ok /\ Len(st.applied) = 1 /\ st.baseline = None

\* a summary as one line of text: every newline becomes one space, and an
\* empty summary is read back as absent
FlatSummary(summary) ==
    IF summary = None \/ summary[1] = <<>> THEN None
    ELSE Some([i \in 1..Len(summary[1]) |->
                  IF summary[1][i] = NL THEN SP ELSE summary[1][i]])

UpgradeCase(d) ==
    /\ ~d.history.exists
    /\ d.legacy_history.exists /\ WellFormedApplied(d.legacy_history.content)
    /\ d.legacy_baseline.exists
    /\ read_legacy_baseline(d.legacy_baseline.content).ok
    /\ read_legacy_baseline(d.legacy_baseline.content).baseline # None

\* C10: a read of a directory without a log, with a legacy applied log of N
\* entries and a legacy baseline file, leaves a log of exactly those N
\* applied records followed by one baseline record with the summary on one
\* line, removes both legacy files, and returns the N entries and that
\* baseline.
C10_LegacyUpgrade ==
    [][\A d1 \in {dir}, d2 \in {dir'} :
          (UpgradeCase(d1) /\ out'.cmd = "status")
          => \A old \in {LegacyEntries(d1.legacy_history.content).applied},
                b \in {read_legacy_baseline(d1.legacy_baseline.content).baseline[1]},
                ls \in {Lines(d2.history.content)} :
             \A expected \in {[version |-> b.version, created |-> b.created,
                               summary |-> FlatSummary(b.summary)]} :
                /\ d2.history.exists
                /\ d2.legacy_history = Absent /\ d2.legacy_baseline = Absent
                /\ Len(ls) = Len(old) + 1
                /\ \A i \in 1..Len(old) : LineState(ls[i]).applied = <<old[i]>>
                /\ LineState(ls[Len(old) + 1]).baseline = Some(expected)
                /\ out'.err = "ok"
                /\ out'.state = [applied |-> old, baseline |-> Some(expected)]]_vars

\* after a read, the log holds two applied records and a baseline whose
\* summary came from a literal block, and the legacy files are gone
C10_Witness ==
    /\ out.cmd = "status" /\ out.err = "ok"
    /\ Len(out.state.applied) = 2
    /\ out.state.baseline # None
    /\ out.state.baseline[1].summary = Some(<<"x", SP, "y">>)
    /\ out.state.baseline[1].created = 0
    /\ dir.legacy_history = Absent /\ dir.legacy_baseline = Absent
    /\ Len(Lines(dir.history.content)) = 3

\* the condition under which read_history runs the legacy upgrade
UpgradeTriggered(d) == ~d.history.exists /\ d.legacy_history.exists

\* C11: after a read that performed the legacy upgrade, a second read
\* returns the same state, does not trigger the upgrade again, and leaves
\* the directory, hence every record of the log, as it is.
C11_UpgradeIdempotent ==
    [][\A d1 \in {dir}, d2 \in {dir'} :
          (UpgradeTriggered(d1) /\ out'.cmd = "status" /\ out'.err = "ok")
          => \A again \in {read_history(d2)} :
                /\ ~UpgradeTriggered(d2)
                /\ again.ok
                /\ again.state = out'.state
                /\ again.dir = d2]_vars

\* an upgrade of one legacy entry and a legacy baseline with a block summary
\* has been read, and reading again gives the same
C11_Witness ==
    /\ out.cmd = "status" /\ out.err = "ok"
    /\ Len(out.state.applied) = 1
    /\ out.state.baseline # None
    /\ out.state.baseline[1].created = 0
    /\ out.state.baseline[1].summary = Some(<<"x", SP, "y">>)
    /\ dir.history.exists
    /\ dir.legacy_history = Absent /\ dir.legacy_baseline = Absent
    /\ read_history(dir) = [ok |-> TRUE, state |-> out.state, dir |-> dir]

\* the baseline a legacy baseline file holds, None if it holds none or
\* cannot be read
LegacyBaselineOf(d) ==
    IF d.legacy_baseline.exists
       /\ read_legacy_baseline(d.legacy_baseline.content).ok
    THEN read_legacy_baseline(d.legacy_baseline.content).baseline
    ELSE None

\* C12: a read of a directory that has no log but has a legacy baseline
\* file holding a baseline, with or without a legacy applied log, writes
\* that baseline as a record of the new log, removes the legacy files and
\* returns a state with that baseline.
C12_Original ==
    [][\A d1 \in {dir}, d2 \in {dir'} :
          (~d1.history.exists /\ LegacyBaselineOf(d1) # None
              /\ out'.cmd = "status")
          => \A b \in {LegacyBaselineOf(d1)[1]} :
                /\ out'.err = "ok"
                /\ out'.state.baseline # None
                /\ out'.state.baseline[1].version = b.version
                /\ out'.state.baseline[1].created = b.created
                /\ d2.history.exists
                /\ \E i \in 1..Len(Lines(d2.history.content)) :
                       IsBaselineLine(Lines(d2.history.content)[i], b.version)
                /\ d2.legacy_history = Absent
                /\ d2.legacy_baseline = Absent]_vars

\* the log as read_history's loop decodes it
ParsedLog(d) ==
    HistoryLoop([ok |-> TRUE, applied |-> <<>>, baseline |-> None],
                Lines(d.history.content))

\* the directory after the baseline b of the legacy baseline file was
\* appended to the log and the file removed
ResidualAppended(d, b) ==
    [history |-> File(d.history.content \o format_baseline_line(b) \o <<NL>>),
     legacy_history |-> d.legacy_history,
     legacy_baseline |-> Absent]

\* C13 as stated: whenever a read finds a legacy baseline file beside an
\* existing log, it appends the file's baseline to the log, removes the
\* file and leaves the legacy applied log alone, whether or not the log
\* already holds a baseline record.
C13_Original ==
    [][\A d1 \in {dir}, d2 \in {dir'} :
          (d1.history.exists /\ LegacyBaselineOf(d1) # None
              /\ out'.cmd = "status")
          => d2 = ResidualAppended(d1, LegacyBaselineOf(d1)[1])]_vars

\* C13 amended: the append and removal happen when the log parses and holds
\* no baseline record; when the log holds a baseline record, or does not
\* parse, the directory is left as it is.  The legacy applied log is never
\* touched.
C13_ResidualBaseline ==
    [][\A d1 \in {dir}, d2 \in {dir'} :
          (d1.history.exists /\ LegacyBaselineOf(d1) # None
              /\ out'.cmd = "status")
          => \A log \in {ParsedLog(d1)} :
                IF log.ok /\ log.baseline = None
                THEN d2 = ResidualAppended(d1, LegacyBaselineOf(d1)[1])
                ELSE d2 = d1]_vars

\* a read found a legacy baseline file beside a log of one applied record:
\* the baseline is now the last line of the log, the file is gone and the
\* legacy applied log is still there
C13_Witness ==
    /\ out.cmd = "status" /\ out.err = "ok"
    /\ dir.history.exists
    /\ dir.legacy_history.exists /\ dir.legacy_history.content # <<>>
    /\ dir.legacy_baseline = Absent
    /\ \E ls \in {Lines(dir.history.content)} :
          /\ Len(ls) = 2
          /\ IsAppliedLine(ls[1], IdA)
          /\ \E st \in {LineState(ls[2])} :
                st.baseline # None /\ st.baseline[1].created = 0

\* a line that has the shape of no record: blank once trimmed, the baseline
\* marker followed by fewer than two fields, or a single token
Unshaped(raw) ==
    \E line \in {Trim(raw)} :
        \/ line = <<>>
        \/ /\ HasPrefix(line, <<BaselineMark, SP>>)
           /\ Len(SplitN(Drop(line, 2), 3)) < 2
        \/ /\ ~HasPrefix(line, <<BaselineMark, SP>>)
           /\ Len(SplitN(line, 2)) # 2

\* a line that decodes to an applied record or to a baseline record
WellFormed(raw) ==
    \E st \in {LineState(raw)} :
        st.ok /\ (st.applied # <<>> \/ st.baseline # None)

\* a log that exists with no legacy baseline file beside it
PlainLog(d) == d.history.exists /\ ~d.legacy_baseline.exists

\* what the reader returns for the given lines: [ok, applied, baseline]
ReadLines(ls) ==
    HistoryLoop([ok |-> TRUE, applied |-> <<>>, baseline |-> None], ls)

\* C14 as stated: a read never fails because of a line that is not a
\* well-formed record; the read succeeds and returns what the well-formed
\* lines hold.
C14_Original ==
    [][\A d1 \in {dir} :
          (PlainLog(d1) /\ out'.cmd = "status")
          => \A kept \in {SelectSeq(Lines(d1.history.content), WellFormed)} :
             \A res \in {ReadLines(kept)} :
                /\ out'.err = "ok"
                /\ out'.state = [applied |-> res.applied,
                                 baseline |-> res.baseline]]_vars

\* C14 amended: a line that has the shape of no record is skipped; the read
\* gives what it gives for the log without those lines, and it succeeds
\* when every other line is a well-formed record.
C14_SkipUnshaped ==
    [][\A d1 \in {dir} :
          (PlainLog(d1) /\ out'.cmd = "status")
          => \A ls \in {Lines(d1.history.content)} :
             \A res \in {ReadLines(SelectSeq(ls, LAMBDA l : ~Unshaped(l)))} :
                /\ out'.err = IF res.ok THEN "ok" ELSE "read_error"
                /\ res.ok => out'.state = [applied |-> res.applied,
                                           baseline |-> res.baseline]
                /\ (\A i \in 1..Len(ls) : Unshaped(ls[i]) \/ WellFormed(ls[i]))
                      => res.ok]_vars

\* a log of a foreign word and one applied record has been read: the word
\* was skipped and the record returned
C14_Witness ==
    /\ out.cmd = "status" /\ out.err = "ok"
    /\ PlainLog(dir)
    /\ Len(out.state.applied) = 1 /\ out.state.baseline = None
    /\ \E ls \in {Lines(dir.history.content)} :
          Len(ls) = 2 /\ ls[1] = <<"x">> /\ IsAppliedLine(ls[2], IdA)

\* a line that has the shape of a record but whose timestamp field is not
\* valid RFC3339: the baseline marker with a version and a second field, or
\* an id followed by the rest of the line
BrokenRecord(raw) ==
    \E line \in {Trim(raw)} :
        IF HasPrefix(line, <<BaselineMark, SP>>)
        THEN \E parts \in {SplitN(Drop(line, 2), 3)} :
                Len(parts) >= 2 /\ parts[2] \notin {<<t>> : t \in TsTexts}
        ELSE \E parts \in {SplitN(line, 2)} :
                Len(parts) = 2 /\ parts[2] \notin {<<t>> : t \in TsTexts}

\* C15: if any line of the log has the shape of a record with a timestamp
\* field that is not valid RFC3339, the read fails as a whole and returns
\* no state, whatever records precede or follow that line.
C15_BrokenTimestamp ==
    [][\A d1 \in {dir} :
          (d1.history.exists /\ out'.cmd = "status"
              /\ \E ls \in {Lines(d1.history.content)} :
                    \E i \in 1..Len(ls) : BrokenRecord(ls[i]))
          => out'.err = "read_error" /\ out'.state = DefaultState]_vars

\* a read failed on a log whose first line is a well-formed applied record
\* and whose second line is an applied record with a broken timestamp
C15_Witness ==
    /\ out.cmd = "status" /\ out.err = "read_error"
    /\ dir.history.exists
    /\ \E ls \in {Lines(dir.history.content)} :
          /\ Len(ls) = 2
          /\ WellFormed(ls[1])
          /\ BrokenRecord(ls[2]) /\ ~HasPrefix(ls[2], <<BaselineMark, SP>>)

\* the positions of the baseline records in the lines of a log
BaselineRecords(ls) == {i \in 1..Len(ls) : LineState(ls[i]).baseline # None}

\* C16: the baseline a read returns is the one of the last baseline record
\* of the log, whatever the versions of the earlier baseline records and
\* whatever applied records lie between them.
C16_LastBaselineWins ==
    [][\A d1 \in {dir} :
          (d1.history.exists /\ out'.cmd = "status")
          => \A ls \in {Lines(d1.history.content)} :
             \A at \in {BaselineRecords(ls)} :
                /\ out'.err = "ok"
                /\ at = {} => out'.state.baseline = None
                /\ at # {} =>
                      \E last \in at :
                         /\ \A i \in at : i <= last
                         /\ out'.state.baseline = LineState(ls[last]).baseline]_vars

\* a log of a baseline at 002, an applied record and a baseline at 001 has
\* been read: the live baseline is 001
C16_Witness ==
    /\ out.cmd = "status" /\ out.err = "ok"
    /\ out.state.baseline # None
    /\ out.state.baseline[1].version = <<"0","0","1">>
    /\ Len(out.state.applied) = 1
    /\ \E ls \in {Lines(dir.history.content)} :
          /\ Len(ls) = 3
          /\ IsBaselineLine(ls[1], <<"0","0","2">>)
          /\ IsAppliedLine(ls[2], IdB)
          /\ IsBaselineLine(ls[3], <<"0","0","1">>)

\* the three checks of the validator, said of the directory: version V
\* matches a discovered migration, is not below the live baseline, and
\* every discovered migration at or below V has an applied record
ValidAt(V, d, fs) ==
    \E available \in {discover_migrations(fs)}, st \in {read_history(d).state} :
        /\ \E i \in 1..Len(available) : available[i].version = V
        /\ st.baseline = None \/ ~StrLt(V, st.baseline[1].version)
        /\ \A i \in 1..Len(available) :
              StrLe(available[i].version, V)
              => \E j \in 1..Len(st.applied) : st.applied[j].id = available[i].id

\* the step of a baseline command that ends on a validation error
ValidationFailed ==
    /\ AllIdle /\ run' = run /\ creations' = creations
    /\ out'.cmd = "baseline"
    /\ out'.err \in {"no_match", "backward", "unapplied"}

NoLegacy(d) == ~d.legacy_history.exists /\ ~d.legacy_baseline.exists

\* C17 as stated: when the validation of the baseline command fails, the
\* log is byte for byte what it was and no script file or asset directory
\* is removed.
C17_Original ==
    [][ValidationFailed
       => dir'.history = dir.history /\ files' = files /\ dirs' = dirs]_vars

\* C17 amended: when the validation fails the command appends nothing and
\* removes nothing; the directory changes only by what the read before the
\* validation does to legacy files, and not at all when there are none.
\* Conversely a baseline record is appended only at a version that passes
\* the three checks, and files or asset directories are removed only by
\* the cleanup of the baseline appended last.
C17_FailedValidationFrame ==
    [][\A d1 \in {dir}, d2 \in {dir'} :
          /\ ValidationFailed
             => /\ files' = files /\ dirs' = dirs
                /\ d2 = read_history(d1).dir
                /\ NoLegacy(d1) => d2 = d1
          /\ creations' # creations
             => ValidAt(creations'[Len(creations')].version, d1, files)
          /\ d2 # read_history(d1).dir => creations' # creations
          /\ (files' # files \/ dirs' # dirs)
             => /\ creations # <<>>
                /\ \E p \in Procs :
                      /\ run[p].pc = "cleanup"
                      /\ run[p].version = creations[Len(creations)].version]_vars

\* a baseline command failed its validation on a directory that holds a
\* log and no legacy file: the log, the scripts and the asset directory
\* are all still there
C17_Witness ==
    /\ out.cmd = "baseline" /\ out.err = "unapplied"
    /\ creations = <<>>
    /\ NoLegacy(dir)
    /\ dir.history = File(IdA \o <<SP, TsUtc(1), NL>>)
    /\ Cardinality(files) = 2 /\ dirs = DirNames

\* the migrations of the list that the version given to the cleanup covers
Covered == {i \in 1..Len(call.available) :
               StrLe(call.available[i].version, call.version)}

\* where a DeletedItem belongs: the script of the i-th migration comes
\* before its directory, and both before those of the (i+1)-th
Rank(item) ==
    CHOOSE r \in 0..(2 * Len(call.available)) :
        \/ \E i \in 1..Len(call.available) :
              /\ ~item.is_directory /\ item.path = call.available[i].file_path
              /\ r = 2 * i - 1
        \/ \E i \in 1..Len(call.available) :
              /\ item.is_directory /\ item.path = call.available[i].id
              /\ r = 2 * i
        \/ /\ r = 0
           /\ ~\E i \in 1..Len(call.available) :
                 item.path = IF item.is_directory THEN call.available[i].id
                             ELSE call.available[i].file_path

\* C18: a cleanup at version V removes exactly the script files and asset
\* directories that exist of the listed migrations with version <= V,
\* returns one DeletedItem per removal, script before directory and
\* migrations in the order of the list, and leaves everything of a
\* migration with version > V where it was.
C18_CleanupExact ==
    call.op = "delete_baselined_migrations"
    => /\ files = call.before.files
                     \ {call.available[i].file_path : i \in Covered}
       /\ dirs = call.before.dirs \ {call.available[i].id : i \in Covered}
       /\ {call.result[k] : k \in 1..Len(call.result)}
             = {[path |-> call.available[i].file_path, is_directory |-> FALSE] :
                   i \in {j \in Covered :
                             call.available[j].file_path \in call.before.files}}
               \cup {[path |-> call.available[i].id, is_directory |-> TRUE] :
                        i \in {j \in Covered :
                                  call.available[j].id \in call.before.dirs}}
       /\ \A k \in 1..Len(call.result) : Rank(call.result[k]) > 0
       /\ \A k \in 1..(Len(call.result) - 1) :
             Rank(call.result[k]) < Rank(call.result[k + 1])
       /\ \A i \in 1..Len(call.available) :
             i \notin Covered
             => /\ call.available[i].file_path \in files
                      <=> call.available[i].file_path \in call.before.files
                /\ call.available[i].id \in dirs
                      <=> call.available[i].id \in call.before.dirs

\* a cleanup at 001 removed the script and the asset directory of 001-a, in
\* that order, and left the script and the directory of 002-b
C18_Witness ==
    /\ call.op = "delete_baselined_migrations"
    /\ call.version = <<"0","0","1">>
    /\ Len(call.result) = 2
    /\ ~call.result[1].is_directory /\ call.result[2].is_directory
    /\ <<"0","0","2","-","b",".","s">> \in files
    /\ <<"0","0","2","-","b">> \in dirs
    /\ Len(call.available) = 3

\* C19: a second cleanup with the same version and the same list, after a
\* first one that went through, returns no DeletedItem and changes
\* nothing; the scripts that are missing by then are no error.
C19_CleanupTwice ==
    [][call'.op = "delete_baselined_migrations_again"
       => call'.result = <<>> /\ files' = files /\ dirs' = dirs]_vars

\* the second cleanup returned nothing after a first one that removed two
\* scripts and a directory
C19_Witness ==
    /\ call.op = "delete_baselined_migrations_again"
    /\ Len(call.first) = 3
    /\ call.result = <<>>
    /\ \A i \in Covered : call.available[i].file_path \notin files

\* the entries of available whose id has an applied record
AppliedEntries ==
    {i \in 1..Len(call.available) :
        \E j \in 1..Len(call.applied) : call.applied[j].id = call.available[i].id}

\* C20: get_current_version returns the version of the last entry of
\* available whose id occurs in applied, and None when there is none; the
\* applied records of ids that are not in available make no difference,
\* nor does the baseline.
C20_CurrentVersion ==
    call.op = "get_current_version"
    => /\ AppliedEntries = {} => call.result = None
       /\ \A i \in AppliedEntries :
             (\A j \in AppliedEntries : j <= i)
             => call.result = Some(call.available[i].version)
       /\ \A known \in {SelectSeq(call.applied,
                             LAMBDA a : \E i \in 1..Len(call.available) :
                                           call.available[i].id = a.id)} :
             call.result = get_current_version(call.available, known)

\* with a baseline present and the only applied record being of a
\* migration that is no longer available, there is no current version
C20_Witness ==
    /\ call.op = "get_current_version"
    /\ call.existing # None
    /\ Len(call.applied) = 1 /\ Len(call.available) = 1
    /\ call.available[1].id # call.applied[1].id
    /\ call.result = None

IsPrefix(a, b) == Len(a) <= Len(b) /\ SubSeq(b, 1, Len(a)) = a

\* C21: under up and baseline the log only grows at its end: what it held
\* before a step is a prefix of what it holds after, a log once created
\* stays, and a read returns the applied entries in the order in which
\* they were appended.
C21_AppendOnly ==
    [][\A d1 \in {dir}, d2 \in {dir'} :
          /\ IsPrefix(d1.history.content, d2.history.content)
          /\ d1.history.exists => d2.history.exists
          /\ \A new \in {read_history(d2)} :
                new.ok /\ IdsOf(new.state.applied) = executed']_vars

\* the log holds an applied record, then a baseline record, then the
\* applied record of a migration added later
C21_Witness ==
    /\ Len(executed) = 2
    /\ \E ls \in {Lines(dir.history.content)} :
          /\ Len(ls) = 3
          /\ IsAppliedLine(ls[1], executed[1])
          /\ IsBaselineLine(ls[2], <<"0","0","1">>)
          /\ IsAppliedLine(ls[3], executed[2])

\* a read that follows the append of the baseline of the call
ReadAfterAppend == call.op = "append_baseline" /\ out'.cmd = "status"

\* C22 as stated: a baseline appended and read back has the same version
\* and creation time, and the summary with every newline replaced by one
\* space; an absent summary stays absent.
C22_Original ==
    [][ReadAfterAppend
       => \A b \in {call.baseline} :
             /\ out'.err = "ok"
             /\ out'.state.baseline
                   = Some([version |-> b.version, created |-> b.created,
                           summary |-> IF b.summary = None THEN None
                                       ELSE Some(ReplaceNL(b.summary[1]))])]_vars

\* the summary a read gives back: newlines become spaces, blanks at the end
\* are dropped, and a summary with nothing left is absent
ReadBackSummary(summary) ==
    IF summary = None \/ TrimEnd(ReplaceNL(summary[1])) = <<>> THEN None
    ELSE Some(TrimEnd(ReplaceNL(summary[1])))

\* C22 amended: version and creation time come back as written, and the
\* summary comes back with every newline replaced by one space and without
\* the blanks at its end; it is absent if it was absent or nothing is left.
C22_RoundTrip ==
    [][ReadAfterAppend
       => \A b \in {call.baseline} :
             /\ out'.err = "ok"
             /\ out'.state.baseline
                   = Some([version |-> b.version, created |-> b.created,
                           summary |-> ReadBackSummary(b.summary)])]_vars

\* a baseline with a summary of two lines was appended after an older
\* baseline record and read back on one line
C22_Witness ==
    /\ call.op = "append_baseline" /\ out.cmd = "status" /\ out.err = "ok"
    /\ call.baseline.summary = Some(<<"x", NL, "y">>)
    /\ out.state.baseline # None
    /\ out.state.baseline[1].created = call.baseline.created
    /\ out.state.baseline[1].summary = Some(<<"x", SP, "y">>)
    /\ Len(Lines(dir.history.content)) = 2

\* the log holds a baseline record that covers the version
BaselineInLog(d, version) ==
    \E ls \in {Lines(d.history.content)} :
    \E k \in 1..Len(ls), v \in CmdVersions :
        IsBaselineLine(ls[k], v) /\ version_lte(version, v)

\* a turn of the cleanup loop, the one that aborts included
CleanupStep == \E p \in Procs : run[p].pc = "cleanup" /\ run'[p] # run[p]

\* C23: a script file or an asset directory is deleted only once the log
\* holds a baseline record at or above the version of its migration; every
\* item the command reports as deleted is covered in the same way, also
\* when the cleanup aborted part-way; no turn of the cleanup, aborting or
\* not, touches the log.
C23_RecordBeforeCleanup ==
    [][/\ \A f \in files \ files' : BaselineInLog(dir, ToMigration(f).version)
       /\ \A d \in dirs \ dirs' : BaselineInLog(dir, SubSeq(d, 1, 3))
       /\ \A k \in 1..Len(out'.deleted) :
              BaselineInLog(dir', SubSeq(out'.deleted[k].path, 1, 3))
       /\ CleanupStep => dir' = dir]_vars

\* the cleanup removed a script file and then aborted on its asset
\* directory: the file is gone, the directory and the baseline record stay
C23_Witness ==
    /\ out.cmd = "baseline" /\ out.err = "io_error"
    /\ out.deleted = <<[path |-> <<"0","0","2","-","b",".","s">>,
                        is_directory |-> FALSE]>>
    /\ <<"0","0","2","-","b",".","s">> \notin files
    /\ <<"0","0","2","-","b">> \in dirs
    /\ BaselineInLog(dir, <<"0","0","2">>)

\* C24: while a baseline at version B is live, a step of an up run neither
\* executes nor records a migration with version <= B, whether or not the
\* migration has an applied record and whenever its script was added.
C24_BaselineShields ==
    [][\A old \in {Live}, d2 \in {dir'} :
       \A new \in {read_history(d2).state} :
          old.baseline # None
          => /\ \A k \in (Len(executed) + 1)..Len(executed') :
                   ~version_lte(SubSeq(executed'[k], 1, 3),
                                old.baseline[1].version)
             /\ \A k \in (Len(old.applied) + 1)..Len(new.applied) :
                   ~version_lte(SubSeq(new.applied[k].id, 1, 3),
                                old.baseline[1].version)]_vars

\* a baseline at 002 is live, the scripts 001-a and 002-c are in the
\* directory without an applied record, and an up run has returned
C24_Witness ==
    /\ out.cmd = "up" /\ out.err = "ok"
    /\ Live.baseline # None
    /\ Live.baseline[1].version = <<"0","0","2">>
    /\ {<<"0","0","1","-","a",".","s">>, <<"0","0","2","-","c",".","s">>}
          \subseteq files
    /\ executed = << <<"0","0","2","-","b">> >>
    /\ IdsOf(Live.applied) = executed

\* a log of the current format with a legacy applied log beside it
LogBesideLegacy(d) == d.history.exists /\ d.legacy_history.exists

\* C25: a read of a directory whose log exists leaves a legacy applied log
\* beside it in place and unread: the file stays as it is, the log keeps
\* its content and gains no applied record, and the applied list returned
\* is the one the log alone holds.
C25_NoUpgradeBesideLog ==
    [][\A d1 \in {dir}, d2 \in {dir'} :
          (LogBesideLegacy(d1) /\ out'.cmd = "status")
          => /\ ~UpgradeTriggered(d1)
             /\ d2.legacy_history = d1.legacy_history
             /\ d2.history.exists
             /\ IsPrefix(d1.history.content, d2.history.content)
             /\ ParsedLog(d2).applied = ParsedLog(d1).applied
             /\ out'.err = "ok" => out'.state.applied = ParsedLog(d1).applied]_vars

\* a read of a log that holds 002-b alone, beside a legacy applied log that
\* holds 001-a alone: the legacy log is still there and 001-a is not
\* returned
C25_Witness ==
    /\ out.cmd = "status" /\ out.err = "ok"
    /\ dir.history.exists
    /\ dir.legacy_history = File(IdA \o <<SP, TsUtc(1), NL>>)
    /\ IdsOf(out.state.applied) = <<IdB>>
    /\ IdsOf(ParsedLog(dir).applied) = <<IdB>>

\* C26: two invocations of up that overlap are held back by nothing: each
\* executes the next migration of the list it computed at its start and
\* appends its record, also when the other has recorded the same id in the
\* meantime, so the log holds one applied record per execution, duplicates
\* included.
C26_NoRecheck ==
    [][\A d2 \in {dir'} :
          executed' # executed
          => /\ \E p \in Procs :
                   /\ run[p].pc = "up"
                   /\ executed' = Append(executed, run[p].pending[run[p].i].id)
             /\ \A new \in {read_history(d2)} :
                   new.ok /\ IdsOf(new.state.applied) = executed']_vars

\* both invocations have executed 001-a, and the log holds two applied
\* records with that id
C26_Witness ==
    /\ ~serial
    /\ \E i, j \in 1..Len(executed) :
          /\ i < j
          /\ executed[i] = IdA /\ executed[j] = IdA
          /\ \E ls \in {Lines(dir.history.content)} :
                /\ Len(ls) = Len(executed)
                /\ IsAppliedLine(ls[i], IdA) /\ IsAppliedLine(ls[j], IdA)
    /\ Len(Live.applied) = Len(executed)

\* the baseline records among the lines of a log
BaselineLinesOf(d) ==
    {k \in 1..Len(Lines(d.history.content)) :
        LineState(Lines(d.history.content)[k]).baseline # None}

\* C27: a read that follows an upgrade cut short after the log was written
\* returns the state an upgrade that ran to its end returns, and leaves the
\* log that upgrade leaves: each legacy entry once, at most one baseline
\* record.
C27_InterruptedUpgrade ==
    [][\A d2 \in {dir'} :
          (call.op = "interrupted" /\ out'.cmd = "status")
          => \A whole \in {read_history(call.before)} :
                /\ whole.ok /\ out'.err = "ok"
                /\ out'.state = whole.state
                /\ d2.history = whole.dir.history
                /\ IdsOf(ParsedLog(d2).applied)
                      = IdsOf(LegacyEntries(call.before.legacy_history.content).applied)
                /\ Cardinality(BaselineLinesOf(d2)) <= 1]_vars

\* the upgrade of two legacy entries and a legacy baseline stopped before
\* either legacy file was removed; the next read returned both entries and
\* the baseline, and the legacy files are still there
C27_Witness ==
    /\ call.op = "interrupted" /\ call.point = "written"
    /\ out.cmd = "status" /\ out.err = "ok"
    /\ IdsOf(out.state.applied) = <<IdA, IdB>>
    /\ out.state.baseline # None
    /\ out.state.baseline[1].summary = Some(<<"x", SP, "y">>)
    /\ dir.legacy_history.exists /\ dir.legacy_baseline.exists
    /\ Len(Lines(dir.history.content)) = 3

\* get_pending over a fresh discovery and a fresh read
PendingOf(fs, d) == get_pending(discover_migrations(fs), read_history(d).state)

\* a step of a baseline command that passed validation: the append of the
\* record, or a turn of the cleanup
BaselineStep == creations' # creations \/ CleanupStep

\* C28: no step of a baseline command that passed validation changes the
\* pending migrations: get_pending over a fresh discovery and a fresh read
\* gives the same list, in the same order, before and after the append of
\* the record and before and after every removal of the cleanup.
C28_PendingUnchanged ==
    [][\A d2 \in {dir'}, fs2 \in {files'} :
          BaselineStep => PendingOf(fs2, d2) = PendingOf(files, dir)]_vars

\* a baseline at 001 was written and its cleanup removed 001-a.s while
\* 002-b and 002-c were pending: they still are, in that order
C28_Witness ==
    /\ out.cmd = "baseline" /\ out.err = "ok"
    /\ out.deleted = <<[path |-> <<"0","0","1","-","a",".","s">>,
                        is_directory |-> FALSE]>>
    /\ IdsOf(PendingOf(files, dir)) = <<IdB, <<"0","0","2","-","c">> >>
    /\ Live.baseline # None
    /\ Live.baseline[1].version = <<"0","0","1">>

\* the last turn of an up run all of whose migrations succeeded
UpCompletes(p) ==
    run[p].pc = "up" /\ run'[p].pc = "idle" /\ out'.err = "ok"

\* C29: an up run that has entered its loop returns; when it returns with
\* every migration succeeded the log holds the records it held at the start
\* followed by one applied record for each migration that was pending, in
\* order, and get_pending is empty; and an up run started when nothing is
\* pending executes nothing and appends nothing.
C29_UpCompletes ==
    /\ \A p \in Procs : (run[p].pc = "up") ~> (run[p].pc = "idle")
    /\ [][\A d2 \in {dir'}, fs2 \in {files'} :
            /\ \A p \in Procs :
                  UpCompletes(p)
                  => /\ IdsOf(read_history(d2).state.applied)
                           = IdsOf(ReadLines(Lines(run[p].log0)).applied)
                                \o IdsOf(run[p].pending)
                     /\ PendingOf(fs2, d2) = <<>>
            /\ (AllIdle /\ PendingOf(files, dir) = <<>>)
                  => (d2 = dir /\ executed' = executed /\ run' = run)]_vars

\* an up run found 001-a applied, executed 002-b and 002-c and returned:
\* the log holds the three records and nothing is pending
C29_Witness ==
    /\ AllIdle /\ out.cmd = "up" /\ out.err = "ok"
    /\ executed = <<IdB, <<"0","0","2","-","c">> >>
    /\ IdsOf(Live.applied) = <<IdA>> \o executed
    /\ files = FileNames
    /\ PendingOf(files, dir) = <<>>

\* an up that returned at once although migrations were pending: a dry run
DryUp ==
    /\ AllIdle /\ run' = run
    /\ out'.cmd = "up" /\ out'.err = "ok"
    /\ PendingOf(files, dir) # <<>>

\* a baseline that passed validation and returned at the dry_run check
DryBaseline ==
    /\ AllIdle /\ run' = run
    /\ out'.cmd = "baseline" /\ out'.err = "dry_run"

====
